---------------------------- MODULE Spec2Model ----------------------------
(***************************************************************************)
(* Authentication and authorization middleware of the olivegardens        *)
(* backend: the login-attempt guard, the token blacklist, the four        *)
(* authenticate variants, the role gates, logout and the login route.     *)
(* Times are milliseconds, as Date.now() gives them.                      *)
(***************************************************************************)
EXTENDS Integers, FiniteSets, Sequences, Bags, TLC

\* ------------------------------------------------------------------ constants

\* 3600000: the lockout window and the sweep period (config/cloudinary.js:53,57,68,73)
HOUR == 3600000
\* attempts.count >= 10 (config/cloudinary.js:68)
BlockThreshold == 10
\* expiresIn: '7d', in seconds as jsonwebtoken keeps exp (routes/auth.js:136)
TokenTTL == 604800
\* setTimeout(..., 7 * 24 * 60 * 60 * 1000) in logout (config/cloudinary.js:421)
BlacklistTTL == 604800000
\* loginLimiter: windowMs 15 * 60 * 1000, max 20 (unnamed/part_006:266,267)
LimiterWindow == 900000
LimiterMax == 20
\* incLoginAttempts: the fifth failure locks for 2 * 60 * 60 * 1000 ms
\* (unnamed/part_003:381,382)
LockThreshold == 5
LockTime == 7200000

\* ------------------------------------------------------------------ bounds

\* clock steps: half an hour, and a week
HALF_HOUR == HOUR \div 2
WEEK == 168 * HOUR
\* the guard specification's clock runs over 0 .. MaxHalfHours half hours
MaxHalfHours == 3
\* the pipeline specifications' clock runs over 0 .. MaxWeeks weeks
MaxWeeks == 1
\* no source key is counted beyond MaxCount failures
MaxCount == 11
\* tokens issued for one account in one behaviour
MaxTokens == 1
\* requests of the asynchronous pipeline in flight at once
MaxInflight == 2
\* the login limiter counts no key beyond MaxHits requests
MaxHits == 22
\* the login specification's clock runs over 0 .. MaxQuarters quarters of an hour
MaxQuarters == 1
\* the account specifications' clock runs over 0 .. MaxLockHours hours
MaxLockHours == 3

IPs == {"ip1", "ip2"}
\* the _id of the account that exists from the start, and the _id the store
\* gives the document of a registration
UserIds == {"u1"}
NewIds == {"u2"}
DocIds == UserIds \cup NewIds
NoId == "-"
Roles == {"user", "admin", "superadmin"}
\* the two schemas registered as the User model: the one of
\* unnamed/part_003:41, which declares emailVerified, password with
\* select: false, the lock paths and findByCredentials, and the one of
\* unnamed/part_003:460, which declares none of them
Schemas == {"security", "basic"}

VARIABLES
  now,            \* Date.now()
  loginAttempts,  \* the Map of config/cloudinary.js:47: ip -> {count, lastAttempt}
  lastSweep,      \* time of the last run of the hourly setInterval sweep
  tokenBlacklist, \* the Set of config/cloudinary.js:44
  timers,         \* pending setTimeout callbacks of logout, one per call:
                  \* a bag of [tok, at]
  users,          \* the User collection: _id -> document
  issued,         \* tokens signed so far
  inflight,       \* requests of the asynchronous pipeline between two awaits
  rateHits,       \* loginLimiter's store: ip -> {hits, resetTime}
  jwtSecretSet,   \* whether process.env.JWT_SECRET is set
  requireEmailVerification, \* process.env.REQUIRE_EMAIL_VERIFICATION === 'true'
  schema,         \* which of the two User models the deployment loads
  resp,           \* the outcome of the last completed operation
  failLog,        \* history: per ip, the failures recorded in the running window
  wrongLogins,    \* history: per ip, wrong-password logins answered so far
  revokedEver     \* history: every token logout has blacklisted

vars == <<now, loginAttempts, lastSweep, tokenBlacklist, timers, users, issued,
          inflight, rateHits, jwtSecretSet, requireEmailVerification, schema,
          resp, failLog, wrongLogins, revokedEver>>

\* ------------------------------------------------------------------ helpers

MapSet(m, k, v) == [x \in DOMAIN m \cup {k} |-> IF x = k THEN v ELSE m[x]]
MapDel(m, k) == [x \in DOMAIN m \ {k} |-> m[x]]
EmptyMap == [x \in {} |-> 0]

\* ------------------------------------------------- login attempt guard (store)

\* isIPBlocked: the verdict and the store it leaves (the lazy delete of line 74)
isIPBlocked_late(la, ip, t) ==
  IF ip \notin DOMAIN la THEN [blocked |-> FALSE, la |-> la]
  ELSE IF la[ip].count > BlockThreshold /\ t - la[ip].lastAttempt < HOUR
       THEN [blocked |-> TRUE, la |-> la]
  ELSE IF t - la[ip].lastAttempt > HOUR
       THEN [blocked |-> FALSE, la |-> MapDel(la, ip)]
  ELSE [blocked |-> FALSE, la |-> la]

isIPBlocked(la, ip, t) ==
  IF ip \notin DOMAIN la THEN [blocked |-> FALSE, la |-> la]
  ELSE IF la[ip].count >= BlockThreshold /\ t - la[ip].lastAttempt < HOUR
       THEN [blocked |-> TRUE, la |-> la]
  ELSE IF t - la[ip].lastAttempt > HOUR
       THEN [blocked |-> FALSE, la |-> MapDel(la, ip)]
  ELSE [blocked |-> FALSE, la |-> la]

recordCount(la, ip) == IF ip \in DOMAIN la THEN la[ip].count ELSE 0

\* resetFailedLogins with the record left in place
resetFailedLogins_keep(la, ip) == la

\* recordFailedLogin whose increment is lost when a record exists
recordFailedLogin_lost(la, ip, t) ==
  MapSet(la, ip, [count |-> IF recordCount(la, ip) = 0 THEN 1
                            ELSE recordCount(la, ip),
                  lastAttempt |-> t])

recordFailedLogin(la, ip, t) ==
  MapSet(la, ip, [count |-> recordCount(la, ip) + 1, lastAttempt |-> t])

resetFailedLogins(la, ip) == MapDel(la, ip)

\* one run of the setInterval callback at time t
sweep_eager(la, t) ==
  [x \in {i \in DOMAIN la : ~(t - la[i].lastAttempt >= HOUR)} |-> la[x]]

sweep(la, t) ==
  [x \in {i \in DOMAIN la : ~(t - la[i].lastAttempt > HOUR)} |-> la[x]]

\* the last multiple of HOUR strictly inside (t1, t2), or 0 when there is none
lastSweepWithin(t1, t2) ==
  LET k == (t2 - 1) \div HOUR IN IF k * HOUR > t1 THEN k * HOUR ELSE 0

\* the sweep of the current instant has not run yet
SweepDue == now > 0 /\ now % HOUR = 0 /\ lastSweep < now

\* ------------------------------------------------------------------ tokens

\* the signing keys in use: process.env.JWT_SECRET and the two hard-coded
\* fallbacks (routes/auth.js:7, unnamed/part_000:275)
EnvSecret == "process.env.JWT_SECRET"
RoutesFallback == "your-secret-key-change-in-production"
ProtectFallback == "your-secret-key-change-this"
NoSecret == "undefined"

\* a request carries no token, a string that is no JWT, or a signed token
NoToken == [kind |-> "none", uid |-> "-", role |-> "-", iat |-> 0,
            key |-> "-", claim |-> "-"]
Garbage == [kind |-> "garbage", uid |-> "-", role |-> "-", iat |-> 0,
            key |-> "-", claim |-> "-"]

\* const JWT_SECRET = process.env.JWT_SECRET || '...' (routes/auth.js:7)
JWT_SECRET(secretSet) == IF secretSet THEN EnvSecret ELSE RoutesFallback

\* jwt.sign({userId, role, userType}, JWT_SECRET, {expiresIn: '7d'}): iat is
\* floor(Date.now() / 1000) and exp is iat + 604800
jwtSign(uid, role, secretSet, t) ==
  [kind |-> "jwt", uid |-> uid, role |-> role, iat |-> t \div 1000,
   key |-> JWT_SECRET(secretSet), claim |-> "userId"]

tokenExp(tok) == tok.iat + TokenTTL

\* jwt.verify(token, secret): the signature is checked before the expiry,
\* and a token is expired when floor(Date.now() / 1000) >= exp
jwtVerify(tok, secret, t) ==
  IF tok.kind # "jwt" \/ secret = NoSecret \/ tok.key # secret
    THEN "JsonWebTokenError"
  ELSE IF t \div 1000 >= tokenExp(tok) THEN "TokenExpiredError"
  ELSE "ok"

\* decoded.id || decoded.userId, and decoded.id alone
idOrUserId(tok) == tok.uid
idOnly(tok) == IF tok.claim = "id" THEN tok.uid ELSE "-"

\* ------------------------------------------------------------------ responses

NoIdentity == [id |-> "-", role |-> "-"]

\* a middleware's outcome: the response it sent (status 0: none), whether it
\* called next, what it attached to the request, and the work it performed
Stop(status, why, fields, stages) ==
  [status |-> status, why |-> why, fields |-> fields, next |-> FALSE,
   user |-> NoIdentity, token |-> FALSE, stages |-> stages]

Pass(identity, withToken, stages) ==
  [status |-> 0, why |-> "next", fields |-> {}, next |-> TRUE,
   user |-> identity, token |-> withToken, stages |-> stages]

\* User.findById(id): the document, or null
userFound(us, uid) == uid \in DOMAIN us /\ us[uid].exists

\* User.findOne({email}): the _id of the stored document with the email, of
\* which the unique index (unnamed/part_003:48) allows one, or NoId
findOne(us, email) ==
  LET m == {d \in DOMAIN us : us[d].exists /\ us[d].email = email}
  IN IF m = {} THEN NoId ELSE CHOOSE d \in m : TRUE

\* ------------------------------- authenticateToken (config/cloudinary.js:115)

\* up to the first await: the lockout check, the token extraction, the blacklist
\* lookup and the verification. pc = "lookup": User.findById(uid) is awaited.
\* An error thrown by validateJWTSecret is caught by catch (jwtError): its name
\* is none of the JWT error names, so the last branch answers.
authenticateToken_tokenFirst(tok, ip, la, bl, secretSet, t) ==
  LET blk == isIPBlocked(la, ip, t)
      done(r) == [pc |-> "done", res |-> r, la |-> blk.la, uid |-> "-"]
      v == jwtVerify(tok, EnvSecret, t)
  IN
  IF tok.kind = "none"
    THEN done(Stop(401, "no_token", {"requiresAuth"}, {"extract"}))
  ELSE IF blk.blocked
    THEN done(Stop(429, "blocked", {"blockedUntil"}, {"extract", "ip"}))
  ELSE IF tok \in bl
    THEN done(Stop(401, "revoked", {"requiresAuth"},
                   {"ip", "extract", "revocation"}))
  ELSE IF ~secretSet
    THEN done(Stop(401, "auth_failed", {"requiresAuth"},
                   {"ip", "extract", "revocation"}))
  ELSE IF v = "TokenExpiredError"
    THEN done(Stop(401, "expired", {"requiresAuth", "expired", "expiredAt"},
                   {"ip", "extract", "revocation", "verify"}))
  ELSE IF v = "JsonWebTokenError"
    THEN done(Stop(401, "invalid", {"requiresAuth"},
                   {"ip", "extract", "revocation", "verify"}))
  ELSE IF idOrUserId(tok) = "-"
    THEN done(Stop(401, "bad_format", {"requiresAuth"},
                   {"ip", "extract", "revocation", "verify"}))
  ELSE [pc |-> "lookup",
        res |-> Stop(0, "pending", {}, {"ip", "extract", "revocation", "verify"}),
        la |-> blk.la, uid |-> idOrUserId(tok)]

authenticateToken(tok, ip, la, bl, secretSet, t) ==
  LET blk == isIPBlocked(la, ip, t)
      done(r) == [pc |-> "done", res |-> r, la |-> blk.la, uid |-> "-"]
      v == jwtVerify(tok, EnvSecret, t)
  IN
  IF blk.blocked
    THEN done(Stop(429, "blocked", {"blockedUntil"}, {"ip"}))
  ELSE IF tok.kind = "none"
    THEN done(Stop(401, "no_token", {"requiresAuth"}, {"ip", "extract"}))
  ELSE IF tok \in bl
    THEN done(Stop(401, "revoked", {"requiresAuth"},
                   {"ip", "extract", "revocation"}))
  ELSE IF ~secretSet
    THEN done(Stop(401, "auth_failed", {"requiresAuth"},
                   {"ip", "extract", "revocation"}))
  ELSE IF v = "TokenExpiredError"
    THEN done(Stop(401, "expired", {"requiresAuth", "expired", "expiredAt"},
                   {"ip", "extract", "revocation", "verify"}))
  ELSE IF v = "JsonWebTokenError"
    THEN done(Stop(401, "invalid", {"requiresAuth"},
                   {"ip", "extract", "revocation", "verify"}))
  ELSE IF idOrUserId(tok) = "-"
    THEN done(Stop(401, "bad_format", {"requiresAuth"},
                   {"ip", "extract", "revocation", "verify"}))
  ELSE [pc |-> "lookup",
        res |-> Stop(0, "pending", {}, {"ip", "extract", "revocation", "verify"}),
        la |-> blk.la, uid |-> idOrUserId(tok)]

\* from the answer of User.findById to the second await, user.save(). db is
\* the lookup's outcome: "ok", or "throws" when the store is unavailable; the
\* rejection is thrown inside the inner try and caught by catch (jwtError).
authenticateToken_lookup(uid, db, us, requireEV, stages) ==
  LET st == stages \cup {"lookup"} IN
  IF db = "throws"
    THEN [pc |-> "done", res |-> Stop(401, "auth_failed", {"requiresAuth"}, st)]
  ELSE IF ~userFound(us, uid)
    THEN [pc |-> "done", res |-> Stop(401, "not_found", {"requiresAuth"}, st)]
  ELSE IF us[uid].isActive = FALSE
    THEN [pc |-> "done", res |-> Stop(403, "inactive", {"accountStatus"}, st)]
  ELSE IF us[uid].emailVerified = "false" /\ requireEV
    THEN [pc |-> "done",
          res |-> Stop(403, "unverified", {"requiresVerification"}, st)]
  ELSE [pc |-> "save", res |-> Stop(0, "pending", {}, st)]

\* from the answer of user.save() on: the identity and the token are attached
\* and next() is called, or the rejection is caught by catch (jwtError)
authenticateToken_save(uid, role, saved, stages) ==
  LET st == stages \cup {"save"} IN
  IF saved = "throws"
    THEN Stop(401, "auth_failed", {"requiresAuth"}, st)
  ELSE Pass([id |-> uid, role |-> role], TRUE, st)

\* ---------------------------------- authenticateToken (unnamed/part_000:7)

\* up to the await of User.findById: the extraction and the verification
authenticateToken_mw(tok, secretSet, t) ==
  LET v == jwtVerify(tok, EnvSecret, t)
      done(r) == [pc |-> "done", res |-> r, uid |-> "-"]
  IN
  IF tok.kind = "none"
    THEN done(Stop(401, "no_token", {"requiresAuth"}, {"extract"}))
  ELSE IF ~secretSet
    THEN done(Stop(500, "config_error", {}, {"extract"}))
  ELSE IF v = "TokenExpiredError"
    THEN done(Stop(401, "expired", {"requiresAuth", "expired"},
                   {"extract", "verify"}))
  ELSE IF v = "JsonWebTokenError"
    THEN done(Stop(401, "invalid", {"requiresAuth"}, {"extract", "verify"}))
  ELSE [pc |-> "lookup", res |-> Stop(0, "pending", {}, {"extract", "verify"}),
        uid |-> idOrUserId(tok)]

\* from the answer of User.findById on: the document is the stored one of
\* that moment
authenticateToken_mw_lookup(uid, db, us, stages) ==
  LET st == stages \cup {"lookup"} IN
  IF db = "throws" THEN Stop(401, "auth_failed", {"requiresAuth"}, st)
  ELSE IF ~userFound(us, uid) THEN Stop(401, "not_found", {"requiresAuth"}, st)
  ELSE IF us[uid].isActive = FALSE THEN Stop(401, "inactive", {}, st)
  ELSE Pass([id |-> uid, role |-> us[uid].role], FALSE, st)

\* ------------------------------------------- protect (unnamed/part_000:259)

\* up to the await of User.findById. decoded.id is read alone;
\* User.findById(undefined) finds nothing
protect(tok, secretSet, t) ==
  LET secret == IF secretSet THEN EnvSecret ELSE ProtectFallback
      v == jwtVerify(tok, secret, t)
      done(r) == [pc |-> "done", res |-> r, uid |-> "-"]
  IN
  IF tok.kind = "none" THEN done(Stop(401, "no_token", {}, {"extract"}))
  ELSE IF v # "ok" THEN done(Stop(401, "token_failed", {}, {"extract", "verify"}))
  ELSE [pc |-> "lookup", res |-> Stop(0, "pending", {}, {"extract", "verify"}),
        uid |-> idOnly(tok)]

\* from the answer of User.findById on
protect_lookup(uid, db, us, stages) ==
  LET st == stages \cup {"lookup"} IN
  IF db = "throws" THEN Stop(401, "token_failed", {}, st)
  ELSE IF ~userFound(us, uid) THEN Stop(401, "not_found", {}, st)
  ELSE Pass([id |-> uid, role |-> us[uid].role], FALSE, st)

\* --------------------------------- authenticateToken (routes/auth.js:178)

\* the decoded payload is attached as req.user: no lookup, no blacklist
authenticateToken_routes(tok, secretSet, t) ==
  IF tok.kind = "none"
    THEN Stop(401, "token_required", {}, {"extract"})
  ELSE IF jwtVerify(tok, JWT_SECRET(secretSet), t) # "ok"
    THEN Stop(403, "invalid_or_expired", {}, {"extract", "verify"})
  ELSE Pass([id |-> tok.uid, role |-> tok.role], FALSE, {"extract", "verify"})

\* ------------------------------------------------------------------ role gates

Deny(status, why, fields) ==
  [status |-> status, why |-> why, fields |-> fields, next |-> FALSE]
Allow == [status |-> 0, why |-> "next", fields |-> {}, next |-> TRUE]
NotRun == [status |-> 0, why |-> "not_run", fields |-> {}, next |-> FALSE]

\* isAdmin (config/cloudinary.js:275)
isAdmin(user) ==
  IF user = NoIdentity THEN Deny(401, "auth_required", {"requiresAuth"})
  ELSE IF user.role = "admin" \/ user.role = "superadmin" THEN Allow
  ELSE Deny(403, "admin_required", {"userRole"})

\* isSuperAdmin (config/cloudinary.js:311)
isSuperAdmin(user) ==
  IF user = NoIdentity THEN Deny(401, "auth_required", {"requiresAuth"})
  ELSE IF user.role = "superadmin" THEN Allow
  ELSE Deny(403, "superadmin_required", {"userRole"})

\* authorize(...roles) (config/cloudinary.js:344)
authorize(roles, user) ==
  IF user = NoIdentity THEN Deny(401, "auth_required", {"requiresAuth"})
  ELSE IF user.role \notin roles THEN Deny(403, "role_required", {"userRole"})
  ELSE Allow

\* isAdmin (unnamed/part_000:117)
isAdmin_mw(user) ==
  IF user = NoIdentity THEN Deny(401, "auth_required", {"requiresAuth"})
  ELSE IF user.role = "admin" \/ user.role = "superadmin" THEN Allow
  ELSE Deny(403, "admin_required", {"userRole"})

\* isSuperAdmin (unnamed/part_000:153)
isSuperAdmin_mw(user) ==
  IF user = NoIdentity THEN Deny(401, "auth_required", {"requiresAuth"})
  ELSE IF user.role = "superadmin" THEN Allow
  ELSE Deny(403, "superadmin_required", {})

\* authorize(...roles) (unnamed/part_000:185)
authorize_mw(roles, user) ==
  IF user = NoIdentity THEN Deny(401, "auth_required", {"requiresAuth"})
  ELSE IF user.role \notin roles THEN Deny(403, "role_required", {"userRole"})
  ELSE Allow

\* isAdmin (routes/auth.js:196): req.user.role of an undefined req.user throws
\* a TypeError, which Express hands to the error handler (server.js:51)
isAdmin_routes_leaky(user) ==
  IF user = NoIdentity THEN Deny(500, "TypeError", {})
  ELSE IF user.role # "admin"
    THEN [status |-> 403, why |-> "admin_required", fields |-> {}, next |-> TRUE]
  ELSE Allow

isAdmin_routes(user) ==
  IF user = NoIdentity THEN Deny(500, "TypeError", {})
  ELSE IF user.role # "admin" THEN Deny(403, "admin_required", {})
  ELSE Allow

\* admin (unnamed/part_000:302)
admin(user) ==
  IF user # NoIdentity /\ user.role = "admin" THEN Allow
  ELSE Deny(403, "not_admin", {})

\* the gates by the module that exports them and the name a route uses
Gates ==
  { <<"sec", "isAdmin">>, <<"sec", "isSuperAdmin">>, <<"sec", "authorize">>,
    <<"mw", "isAdmin">>, <<"mw", "isSuperAdmin">>, <<"mw", "authorize">>,
    <<"routes", "isAdmin">>, <<"protect", "admin">> }

\* authorize is used with the allowed set {admin}
runGate(g, user) ==
  CASE g = <<"sec", "isAdmin">> -> isAdmin(user)
    [] g = <<"sec", "isSuperAdmin">> -> isSuperAdmin(user)
    [] g = <<"sec", "authorize">> -> authorize({"admin"}, user)
    [] g = <<"mw", "isAdmin">> -> isAdmin_mw(user)
    [] g = <<"mw", "isSuperAdmin">> -> isSuperAdmin_mw(user)
    [] g = <<"mw", "authorize">> -> authorize_mw({"admin"}, user)
    [] g = <<"routes", "isAdmin">> -> isAdmin_routes(user)
    [] g = <<"protect", "admin">> -> admin(user)
    [] OTHER -> Allow

\* ------------------------------------------------------------------ state

NoResp == [op |-> "none"]

\* a document as new User(...) and save() store it under the schema sch.
\* emailVerified is false by the default of unnamed/part_003:196 and
\* undefined under the schema that declares no such path; no code of the
\* repository writes the path afterwards. lockUntil 0: the path is not set
NewUser(email, role, sch) ==
  [exists |-> TRUE, email |-> email, role |-> role, isActive |-> TRUE,
   emailVerified |-> IF sch = "security" THEN "false" ELSE "undefined",
   loginAttempts |-> 0, lockUntil |-> 0]

\* an _id the store has not given out yet
NoUser ==
  [exists |-> FALSE, email |-> "-", role |-> "-", isActive |-> FALSE,
   emailVerified |-> "undefined", loginAttempts |-> 0, lockUntil |-> 0]

\* the collection at the start: the account u1, whose email is written u1 too
Accounts(role, sch) ==
  [d \in DocIds |-> IF d \in UserIds THEN NewUser(d, role, sch) ELSE NoUser]

NoFailures ==
  [burst |-> 0, last |-> 0, seenBlocked |-> FALSE, simul |-> 0,
   afterNine |-> FALSE, sinceReset |-> 0]

\* a deployment that loads one of the User models in schemas and whose one
\* account has any of the three roles, with the failures la recorded so far,
\* of which fl is the history
InitFrom(secret, verification, schemas, la, fl) ==
  /\ now = 0
  /\ loginAttempts = la
  /\ lastSweep = 0
  /\ tokenBlacklist = {}
  /\ timers = EmptyBag
  /\ schema \in schemas
  /\ users \in {Accounts(r, schema) : r \in Roles}
  /\ issued = {}
  /\ inflight = EmptyBag
  /\ rateHits = EmptyMap
  /\ jwtSecretSet \in secret
  /\ requireEmailVerification \in verification
  /\ resp = NoResp
  /\ failLog = fl
  /\ wrongLogins = [i \in IPs |-> 0]
  /\ revokedEver = {}

\* the state after the modules are loaded
InitWith(secret, verification, schemas) ==
  InitFrom(secret, verification, schemas, EmptyMap, [i \in IPs |-> NoFailures])

\* ------------------------------------------------------------------ the clock

\* time passes by d; the hourly sweeps that fall strictly inside the interval
\* run, in order, and the one due at the current instant has run before.
\* resp is what the last step sent: a step that answers no request clears it,
\* and the calls of the instant that has passed are no longer counted
Tick(d) ==
  /\ ~SweepDue
  /\ LET t == lastSweepWithin(now, now + d) IN
       /\ loginAttempts' = IF t > 0 THEN sweep(loginAttempts, t) ELSE loginAttempts
       /\ lastSweep' = IF t > 0 THEN t ELSE lastSweep
  /\ now' = now + d
  /\ resp' = NoResp
  /\ failLog' = [i \in IPs |-> [failLog[i] EXCEPT !.simul = 0]]
  /\ UNCHANGED <<tokenBlacklist, timers, users, issued, inflight, rateHits,
                 jwtSecretSet, requireEmailVerification, schema, wrongLogins,
                 revokedEver>>

TickHalfHour ==
  /\ (now % WEEK) + HALF_HOUR <= MaxHalfHours * HALF_HOUR
  /\ Tick(HALF_HOUR)

TickWeek == now \div WEEK < MaxWeeks /\ Tick(WEEK)

\* an hour: half of the account lock
TickHour == now + HOUR <= MaxLockHours * HOUR /\ Tick(HOUR)

\* a quarter of an hour: one window of the login limiter
TickQuarter ==
  /\ now + LimiterWindow <= MaxQuarters * LimiterWindow
  /\ Tick(LimiterWindow)

\* the setInterval callback of config/cloudinary.js:50
Sweep ==
  /\ SweepDue
  /\ loginAttempts' = sweep(loginAttempts, now)
  /\ lastSweep' = now
  /\ resp' = NoResp
  /\ UNCHANGED <<now, tokenBlacklist, timers, users, issued, inflight, rateHits,
                 jwtSecretSet, requireEmailVerification, schema, failLog,
                 wrongLogins, revokedEver>>

\* ------------------------------------------------- login attempt guard (calls)

\* history: a failure more than the window after the previous one starts a new
\* run of failures
logFailure(f, t) ==
  [f EXCEPT !.burst = IF f.burst > 0 /\ t - f.last > HOUR THEN 1 ELSE f.burst + 1,
            !.last = t]

\* history: the number of calls made at one instant, starting from no record
logSimultaneous(f, count, t) ==
  IF count = 0 THEN 1
  ELSE IF f.simul > 0 /\ f.last = t THEN f.simul + 1
  ELSE 0

\* history: the first call since a reset that found BlockThreshold - 1
\* failures; the second call ends the episode
logSinceReset(f) == IF f.afterNine /\ f.sinceReset = 0 THEN 1 ELSE 0

\* securityHelpers.recordFailedLogin(ip)
RecordFailedLogin(ip) ==
  /\ recordCount(loginAttempts, ip) < MaxCount
  /\ loginAttempts' = recordFailedLogin(loginAttempts, ip, now)
  /\ failLog' = [failLog EXCEPT ![ip] =
        [logFailure(@, now) EXCEPT
           !.simul = logSimultaneous(failLog[ip],
                                     recordCount(loginAttempts, ip), now),
           !.sinceReset = logSinceReset(failLog[ip]),
           !.afterNine = (logSinceReset(failLog[ip]) = 1)]]
  /\ resp' = [op |-> "recordFailedLogin", ip |-> ip]
  /\ UNCHANGED <<now, lastSweep, tokenBlacklist, timers, users, issued,
                 inflight, rateHits, jwtSecretSet, requireEmailVerification,
                 schema, wrongLogins, revokedEver>>

\* securityHelpers.resetFailedLogins(ip)
ResetFailedLogins(ip) ==
  /\ loginAttempts' = resetFailedLogins(loginAttempts, ip)
  /\ failLog' = [failLog EXCEPT ![ip] =
        [NoFailures EXCEPT
           !.afterNine = (recordCount(loginAttempts, ip) = BlockThreshold - 1)]]
  /\ resp' = [op |-> "resetFailedLogins", ip |-> ip]
  /\ UNCHANGED <<now, lastSweep, tokenBlacklist, timers, users, issued,
                 inflight, rateHits, jwtSecretSet, requireEmailVerification,
                 schema, wrongLogins, revokedEver>>

\* securityHelpers.isIPBlocked(ip)
CheckBlocked(ip) ==
  LET r == isIPBlocked(loginAttempts, ip, now) IN
  /\ loginAttempts' = r.la
  /\ failLog' = [failLog EXCEPT ![ip].seenBlocked = @ \/ r.blocked]
  /\ resp' = [op |-> "isIPBlocked", ip |-> ip, blocked |-> r.blocked]
  /\ UNCHANGED <<now, lastSweep, tokenBlacklist, timers, users, issued,
                 inflight, rateHits, jwtSecretSet, requireEmailVerification,
                 schema, wrongLogins, revokedEver>>

\* the guard on its own: its three calls, the sweep and the clock
InitGuard ==
  InitWith({TRUE}, {FALSE}, {"security"}) /\ users = Accounts("user", schema)

NextGuard ==
  \/ \E ip \in IPs : RecordFailedLogin(ip)
  \/ \E ip \in IPs : ResetFailedLogins(ip)
  \/ \E ip \in IPs : CheckBlocked(ip)
  \/ Sweep
  \/ TickHalfHour

SpecGuard == InitGuard /\ [][NextGuard]_vars

\* ------------------------------------------------------------------ routes

\* a protected route: the authenticate variant its module imports, the gate
\* after it, and the handler. "handler" stands for any route handler.
Route(mw, gate, handler) == [mw |-> mw, gate |-> gate, handler |-> handler]

Routes ==
  { Route("sec", "none", "logout"),          \* authenticateToken, logout
    Route("sec", "isAdmin", "handler"),      \* unnamed/part_002:63
    Route("sec", "isSuperAdmin", "handler"),
    Route("sec", "authorize", "handler"),
    Route("mw", "isAdmin", "handler"),       \* unnamed/part_001:29
    Route("mw", "isSuperAdmin", "handler"),
    Route("mw", "authorize", "handler"),
    Route("protect", "admin", "handler"),    \* routes/upload.js:45
    Route("routes", "none", "handler"),      \* routes/auth.js:165
    Route("routes", "isAdmin", "handler") }  \* routes/products.js:38

\* logout (config/cloudinary.js:410): req.token is blacklisted and a timer
\* is set to delete it, one timer for each call
logout_short(hasToken, tok, bl, tm, t) ==
  IF hasToken
    THEN [bl |-> bl \cup {tok},
          tm |-> tm (+) SetToBag({[tok |-> tok, at |-> t + HOUR]})]
  ELSE [bl |-> bl, tm |-> tm]

logout(hasToken, tok, bl, tm, t) ==
  IF hasToken
    THEN [bl |-> bl \cup {tok},
          tm |-> tm (+) SetToBag({[tok |-> tok, at |-> t + BlacklistTTL]})]
  ELSE [bl |-> bl, tm |-> tm]

\* Express runs the chain: the gate runs only if authenticate called next,
\* the handler only if the gate called next
finish(route, auth) ==
  LET g == IF auth.next THEN runGate(<<route.mw, route.gate>>, auth.user)
           ELSE NotRun
  IN [gate |-> g,
      handlerRan |-> auth.next /\ g.next,
      status |-> IF auth.status # 0 THEN auth.status
                 ELSE IF g.status # 0 THEN g.status
                 ELSE IF auth.next /\ g.next THEN 200 ELSE 0]

\* what the request met when it entered authenticate; found and active are
\* read again when the account lookup answers (Met)
Entry(tok, ip, auth) ==
  [blocked |-> isIPBlocked(loginAttempts, ip, now).blocked,
   revoked |-> tok \in tokenBlacklist,
   everRevoked |-> tok \in revokedEver,
   verdict |-> jwtVerify(tok, JWT_SECRET(jwtSecretSet), now),
   found |-> tok.kind = "jwt" /\ userFound(users, tok.uid),
   active |-> tok.kind = "jwt" /\ userFound(users, tok.uid)
              /\ users[tok.uid].isActive]

\* a request answered before its first await
Outcome(route, ip, tok, auth) ==
  LET fin == finish(route, auth) IN
  [op |-> "request", route |-> route, ip |-> ip, tok |-> tok, auth |-> auth,
   gate |-> fin.gate, handlerRan |-> fin.handlerRan, status |-> fin.status,
   entry |-> Entry(tok, ip, auth), db |-> "-", sv |-> "-"]

\* the handler's writes: logout blacklists req.token
HandlerEffects(route, tok, auth) ==
  LET fin == finish(route, auth)
      out == logout(auth.token, tok, tokenBlacklist, timers, now)
  IN IF fin.handlerRan /\ route.handler = "logout"
       THEN /\ tokenBlacklist' = out.bl
            /\ timers' = out.tm
            /\ revokedEver' = revokedEver \cup (out.bl \ tokenBlacklist)
                                          \cup (IF auth.token THEN {tok} ELSE {})
       ELSE UNCHANGED <<tokenBlacklist, timers, revokedEver>>

Tokens == {NoToken, Garbage} \cup issued

\* the tokens of the logins made two weeks before the start: they have expired
OldTokens ==
  {jwtSign(u, users[u].role, jwtSecretSet, 0 - 2 * WEEK) : u \in UserIds}

\* a token is signed for its account while fewer than MaxTokens tokens of the
\* account are out
TokenRoom(tok) ==
  Cardinality({t \in issued \cup {tok} : t.uid = tok.uid}) <= MaxTokens

\* the requests between two awaits are a bag: two requests may carry the same
\* token to the same route. Node runs a handler from one await to the next
\* without interruption; at an await every other request, timer and write may
\* take its turn
Waiting(q) == SetToBag({q})

\* MaxInflight requests are in flight at once, whichever they are
Room(q) == BagCardinality(inflight) < MaxInflight

Request(route, ip, tok, s1) ==
  [kind |-> "request", route |-> route, ip |-> ip, tok |-> tok, pc |-> "lookup",
   uid |-> s1.uid, role |-> "-", stages |-> s1.res.stages,
   entry |-> Entry(tok, ip, s1.res)]

\* the account as it is stored when User.findById answers
Met(q) ==
  [q EXCEPT !.entry.found = userFound(users, q.tok.uid),
            !.entry.active = userFound(users, q.tok.uid)
                             /\ users[q.tok.uid].isActive]

Settled(q, auth, db, sv) ==
  LET fin == finish(q.route, auth) IN
  [op |-> "request", route |-> q.route, ip |-> q.ip, tok |-> q.tok, auth |-> auth,
   gate |-> fin.gate, handlerRan |-> fin.handlerRan, status |-> fin.status,
   entry |-> q.entry, db |-> db, sv |-> sv]

\* a request enters the authenticateToken of config/cloudinary.js and runs to
\* its first await
SecStart(route, ip, tok) ==
  /\ route.mw = "sec"
  /\ LET s1 == authenticateToken(tok, ip, loginAttempts, tokenBlacklist,
                                 jwtSecretSet, now)
     IN /\ loginAttempts' = s1.la
        /\ IF s1.pc = "done"
             THEN /\ resp' = Outcome(route, ip, tok, s1.res)
                  /\ UNCHANGED inflight
             ELSE /\ Room(Request(route, ip, tok, s1))
                  /\ inflight' = inflight (+) Waiting(Request(route, ip, tok, s1))
                  /\ resp' = NoResp
  /\ UNCHANGED <<now, lastSweep, tokenBlacklist, timers, users, issued,
                 rateHits, jwtSecretSet, requireEmailVerification, schema,
                 failLog, wrongLogins, revokedEver>>

\* User.findById answers
SecLookup(q, db) ==
  /\ BagIn(q, inflight)
  /\ q.kind = "request" /\ q.route.mw = "sec" /\ q.pc = "lookup"
  /\ LET s2 == authenticateToken_lookup(q.uid, db, users,
                                        requireEmailVerification, q.stages)
     IN IF s2.pc = "done"
          THEN /\ resp' = Settled(Met(q), s2.res, db, "-")
               /\ inflight' = inflight (-) Waiting(q)
          ELSE /\ inflight' = (inflight (-) Waiting(q)) (+) Waiting(
                        [Met(q) EXCEPT !.pc = "save", !.role = users[q.uid].role,
                                       !.stages = s2.res.stages])
               /\ resp' = NoResp
  /\ UNCHANGED <<now, loginAttempts, lastSweep, tokenBlacklist, timers, users,
                 issued, rateHits, jwtSecretSet, requireEmailVerification,
                 schema, failLog, wrongLogins, revokedEver>>

\* user.save answers; next() runs the gate and the handler. user.save()
\* writes lastActive, which no middleware reads: the save's outcome is kept,
\* the timestamp is not.
SecSave(q, sv) ==
  /\ BagIn(q, inflight)
  /\ q.kind = "request" /\ q.route.mw = "sec" /\ q.pc = "save"
  /\ LET a == authenticateToken_save(q.uid, q.role, sv, q.stages)
     IN /\ HandlerEffects(q.route, q.tok, a)
        /\ resp' = Settled(q, a, "ok", sv)
        /\ inflight' = inflight (-) Waiting(q)
  /\ UNCHANGED <<now, loginAttempts, lastSweep, users, issued, rateHits,
                 jwtSecretSet, requireEmailVerification, schema, failLog,
                 wrongLogins>>

\* a request enters the authenticateToken of unnamed/part_000 or protect and
\* runs to its await
PlainStart(route, ip, tok) ==
  /\ route.mw \in {"mw", "protect"}
  /\ LET s1 == IF route.mw = "mw"
                 THEN authenticateToken_mw(tok, jwtSecretSet, now)
                 ELSE protect(tok, jwtSecretSet, now)
     IN IF s1.pc = "done"
          THEN /\ resp' = Outcome(route, ip, tok, s1.res)
               /\ UNCHANGED inflight
          ELSE /\ Room(Request(route, ip, tok, s1))
               /\ inflight' = inflight (+) Waiting(Request(route, ip, tok, s1))
               /\ resp' = NoResp
  /\ UNCHANGED <<now, loginAttempts, lastSweep, tokenBlacklist, timers, users,
                 issued, rateHits, jwtSecretSet, requireEmailVerification,
                 schema, failLog, wrongLogins, revokedEver>>

\* User.findById answers; next() runs the gate and the handler
PlainLookup(q, db) ==
  /\ BagIn(q, inflight)
  /\ q.kind = "request" /\ q.route.mw \in {"mw", "protect"} /\ q.pc = "lookup"
  /\ LET a == IF q.route.mw = "mw"
                THEN authenticateToken_mw_lookup(q.uid, db, users, q.stages)
                ELSE protect_lookup(q.uid, db, users, q.stages)
     IN resp' = Settled(Met(q), a, db, "-")
  /\ inflight' = inflight (-) Waiting(q)
  /\ UNCHANGED <<now, loginAttempts, lastSweep, tokenBlacklist, timers, users,
                 issued, rateHits, jwtSecretSet, requireEmailVerification,
                 schema, failLog, wrongLogins, revokedEver>>

\* a request to a route of routes/auth.js's authenticateToken, which awaits
\* nothing
RoutesRequest(route, ip, tok) ==
  /\ route.mw = "routes"
  /\ resp' = Outcome(route, ip, tok,
                     authenticateToken_routes(tok, jwtSecretSet, now))
  /\ UNCHANGED <<now, loginAttempts, lastSweep, tokenBlacklist, timers, users,
                 issued, inflight, rateHits, jwtSecretSet,
                 requireEmailVerification, schema, failLog, wrongLogins,
                 revokedEver>>

\* the setTimeout callback of logout
TimerFire(tm) ==
  /\ BagIn(tm, timers)
  /\ now >= tm.at
  /\ tokenBlacklist' = tokenBlacklist \ {tm.tok}
  /\ timers' = timers (-) SetToBag({tm})
  /\ resp' = [op |-> "evict", tok |-> tm.tok]
  /\ UNCHANGED <<now, loginAttempts, lastSweep, users, issued, inflight,
                 rateHits, jwtSecretSet, requireEmailVerification, schema,
                 failLog, wrongLogins, revokedEver>>

\* ------------------------------------------------------------------ login

\* the document a login holds: nothing before User.findOne has answered
NoDoc == [found |-> FALSE, id |-> NoId, isActive |-> FALSE, role |-> "-"]

\* router.post('/login') (routes/auth.js:111) up to its second await: db is
\* the outcome of User.findOne; pc = "compare": comparePassword is awaited
\* with the document found
loginRoute_findOne(email, us, db) ==
  IF db = "throws"
    THEN [pc |-> "done", doc |-> NoDoc,
          r |-> [status |-> 500, why |-> "login_failed", token |-> NoToken]]
  ELSE IF findOne(us, email) = NoId
    THEN [pc |-> "done", doc |-> NoDoc,
          r |-> [status |-> 401, why |-> "invalid_credentials",
                 token |-> NoToken]]
  ELSE [pc |-> "compare",
        doc |-> [found |-> TRUE, id |-> findOne(us, email),
                 isActive |-> us[findOne(us, email)].isActive,
                 role |-> us[findOne(us, email)].role],
        r |-> [status |-> 0, why |-> "pending", token |-> NoToken]]

\* comparePassword of the schema that declares password select: false
\* (unnamed/part_003:318): the document is fetched again by its _id, and the
\* answer is false at once when it is gone and when the lookup fails (db2);
\* otherwise bcrypt.compare is awaited (pc = "hash") and gives the answer
comparePassword(pw, us, id, db2) ==
  IF db2 = "throws" \/ ~userFound(us, id)
    THEN [pc |-> "done", isMatch |-> FALSE]
  ELSE [pc |-> "hash", isMatch |-> pw = "right"]

\* comparePassword of the schema that selects password (unnamed/part_003:550)
comparePassword_inplace(pw) == pw = "right"

\* from the answer of comparePassword on: _id, isActive and role are those of
\* the document User.findOne returned, the token is signed now
loginRoute_anyAccount(doc, isMatch, secretSet, t) ==
  IF ~isMatch
    THEN [status |-> 401, why |-> "invalid_credentials", token |-> NoToken]
  ELSE [status |-> 200, why |-> "ok",
        token |-> jwtSign(doc.id, doc.role, secretSet, t)]

loginRoute(doc, isMatch, secretSet, t) ==
  IF ~isMatch
    THEN [status |-> 401, why |-> "invalid_credentials", token |-> NoToken]
  ELSE IF ~doc.isActive
    THEN [status |-> 403, why |-> "deactivated", token |-> NoToken]
  ELSE [status |-> 200, why |-> "ok",
        token |-> jwtSign(doc.id, doc.role, secretSet, t)]

\* loginLimiter (unnamed/part_006:265), mounted on /api/auth/login
\* (unnamed/part_006:645): every request of a key is counted in the key's
\* window, and the requests after the first LimiterMax are answered 429
limiterHit(rh, ip, t) ==
  LET cur == IF ip \in DOMAIN rh /\ t < rh[ip].resetTime THEN rh[ip]
             ELSE [hits |-> 0, resetTime |-> t + LimiterWindow]
  IN [cur EXCEPT !.hits = @ + 1]

loginLimiter(rh, ip, t) ==
  [rh |-> MapSet(rh, ip, limiterHit(rh, ip, t)),
   limited |-> limiterHit(rh, ip, t).hits > LimiterMax]

\* history: wrong-password attempts since the source's last successful login
logAttempt(n, pw, status) ==
  IF status = 200 THEN 0
  ELSE IF pw = "wrong" /\ n < BlockThreshold THEN n + 1
  ELSE n

\* a login between two awaits
LoginCall(ip, email, pw, limited) ==
  [kind |-> "login", ip |-> ip, email |-> email, pw |-> pw, pc |-> "find",
   doc |-> NoDoc, isMatch |-> FALSE, limited |-> limited]

\* the response of a login; doc is the document the handler held
LoginResp(q, r) ==
  [op |-> "login", ip |-> q.ip, email |-> q.email, pw |-> q.pw,
   status |-> r.status, why |-> r.why, token |-> r.token, doc |-> q.doc,
   wrongBefore |-> wrongLogins[q.ip]]

\* the history is kept for the server that mounts the limiter
LoginAnswer(q, r) ==
  /\ r.token.kind = "jwt" => TokenRoom(r.token)
  /\ issued' = IF r.token.kind = "jwt" THEN issued \cup {r.token} ELSE issued
  /\ wrongLogins' = IF q.limited
                      THEN [wrongLogins EXCEPT
                              ![q.ip] = logAttempt(@, q.pw, r.status)]
                    ELSE wrongLogins
  /\ resp' = LoginResp(q, r)

\* POST /api/auth/login of the server that mounts no limiter (server.js:38):
\* the handler runs to the await of User.findOne
Login(ip, email, pw) ==
  LET q == LoginCall(ip, email, pw, FALSE) IN
  /\ Room(q)
  /\ inflight' = inflight (+) Waiting(q)
  /\ resp' = NoResp
  /\ UNCHANGED <<now, loginAttempts, lastSweep, tokenBlacklist, timers, users,
                 issued, rateHits, jwtSecretSet, requireEmailVerification,
                 schema, failLog, wrongLogins, revokedEver>>

\* POST /api/auth/login of the server that mounts the limiter: the limiter
\* counts the request and answers it or lets it reach the handler, which runs
\* to the await of User.findOne. The limiter's memory store settles its
\* promise without leaving the turn.
LimitedLogin(ip, email, pw) ==
  LET lim == loginLimiter(rateHits, ip, now)
      q == LoginCall(ip, email, pw, TRUE)
  IN
  /\ limiterHit(rateHits, ip, now).hits <= MaxHits
  /\ rateHits' = lim.rh
  /\ IF lim.limited
       THEN /\ LoginAnswer(q, [status |-> 429, why |-> "rate_limited",
                               token |-> NoToken])
            /\ UNCHANGED inflight
       ELSE /\ Room(q)
            /\ inflight' = inflight (+) Waiting(q)
            /\ resp' = NoResp
            /\ UNCHANGED <<issued, wrongLogins>>
  /\ UNCHANGED <<now, loginAttempts, lastSweep, tokenBlacklist, timers, users,
                 jwtSecretSet, requireEmailVerification, schema, failLog,
                 revokedEver>>

\* User.findOne answers: the handler answers 401 or 500, or holds the
\* document and awaits comparePassword
LoginFound(q, db) ==
  LET f == loginRoute_findOne(q.email, users, db) IN
  /\ BagIn(q, inflight)
  /\ q.kind = "login" /\ q.pc = "find"
  /\ IF f.pc = "done"
       THEN /\ LoginAnswer(q, f.r)
            /\ inflight' = inflight (-) Waiting(q)
       ELSE /\ inflight' = (inflight (-) Waiting(q)) (+) Waiting(
                   [q EXCEPT !.pc = "compare", !.doc = f.doc])
            /\ resp' = NoResp
            /\ UNCHANGED <<issued, wrongLogins>>
  /\ UNCHANGED <<now, loginAttempts, lastSweep, tokenBlacklist, timers, users,
                 rateHits, jwtSecretSet, requireEmailVerification, schema,
                 failLog, revokedEver>>

\* the lookup inside comparePassword answers: with the document and its hash
\* bcrypt.compare is awaited; when the lookup is rejected or finds nothing
\* comparePassword returns false and the handler answers in the same turn
LoginRefetched(q, db2) ==
  /\ BagIn(q, inflight)
  /\ q.kind = "login" /\ q.pc = "compare"
  /\ schema = "security"
  /\ LET c == comparePassword(q.pw, users, q.doc.id, db2) IN
       IF c.pc = "hash"
         THEN /\ inflight' = (inflight (-) Waiting(q)) (+) Waiting(
                     [q EXCEPT !.pc = "hash", !.isMatch = c.isMatch])
              /\ resp' = NoResp
              /\ UNCHANGED <<issued, wrongLogins>>
         ELSE /\ LoginAnswer(q, loginRoute(q.doc, c.isMatch, jwtSecretSet,
                                           now))
              /\ inflight' = inflight (-) Waiting(q)
  /\ UNCHANGED <<now, loginAttempts, lastSweep, tokenBlacklist, timers, users,
                 rateHits, jwtSecretSet, requireEmailVerification, schema,
                 failLog, revokedEver>>

\* bcrypt.compare answers and the handler runs to its response: after the
\* lookup of the one schema, at once for the other
LoginCompared(q) ==
  /\ BagIn(q, inflight)
  /\ q.kind = "login"
  /\ q.pc = IF schema = "security" THEN "hash" ELSE "compare"
  /\ LoginAnswer(q, loginRoute(q.doc,
                               IF q.pc = "hash" THEN q.isMatch
                               ELSE comparePassword_inplace(q.pw),
                               jwtSecretSet, now))
  /\ inflight' = inflight (-) Waiting(q)
  /\ UNCHANGED <<now, loginAttempts, lastSweep, tokenBlacklist, timers, users,
                 rateHits, jwtSecretSet, requireEmailVerification, schema,
                 failLog, revokedEver>>

\* ------------------------------------------------------------------ accounts

\* an administrator deactivates an account
Deactivate(u) ==
  /\ users[u].exists /\ users[u].isActive
  /\ users' = [users EXCEPT ![u].isActive = FALSE]
  /\ resp' = [op |-> "deactivate", user |-> u]
  /\ UNCHANGED <<now, loginAttempts, lastSweep, tokenBlacklist, timers, issued,
                 inflight, rateHits, jwtSecretSet, requireEmailVerification,
                 schema, failLog, wrongLogins, revokedEver>>

\* an account is deleted
DeleteUser(u) ==
  /\ users[u].exists
  /\ users' = [users EXCEPT ![u].exists = FALSE]
  /\ resp' = [op |-> "delete", user |-> u]
  /\ UNCHANGED <<now, loginAttempts, lastSweep, tokenBlacklist, timers, issued,
                 inflight, rateHits, jwtSecretSet, requireEmailVerification,
                 schema, failLog, wrongLogins, revokedEver>>

\* ------------------------------------------------------------------ Spec

PipelineIPs == {"ip1"}
Emails == UserIds \cup {"nobody"}
DbOutcomes == {"ok", "throws"}

\* a deployment of the User model of unnamed/part_003:41. The two models
\* differ in emailVerified, for which see InitGate, and in comparePassword:
\* a login under the other model answers as a login under this one whose
\* second lookup follows User.findOne at once
Init == InitWith({TRUE}, BOOLEAN, {"security"})

\* the requests of one instant, any of them entered while others wait at an
\* await; the expired tokens are those of earlier logins
Next ==
  \/ \E ip \in PipelineIPs, e \in UserIds : Login(ip, e, "right")
  \/ \E q \in BagToSet(inflight) : LoginFound(q, "ok")
  \/ \E q \in BagToSet(inflight) : LoginRefetched(q, "ok")
  \/ \E q \in BagToSet(inflight) : LoginCompared(q)
  \/ \E r \in Routes, ip \in PipelineIPs, tok \in Tokens \cup OldTokens :
        SecStart(r, ip, tok)
  \/ \E q \in BagToSet(inflight), db \in DbOutcomes : SecLookup(q, db)
  \/ \E q \in BagToSet(inflight), sv \in DbOutcomes : SecSave(q, sv)
  \/ \E r \in Routes, ip \in PipelineIPs, tok \in Tokens \cup OldTokens :
        PlainStart(r, ip, tok)
  \/ \E q \in BagToSet(inflight), db \in DbOutcomes : PlainLookup(q, db)
  \/ \E r \in Routes, ip \in PipelineIPs, tok \in Tokens \cup OldTokens :
        RoutesRequest(r, ip, tok)
  \/ \E u \in UserIds : Deactivate(u)

Spec == Init /\ [][Next]_vars

\* the lockout in front of authenticateToken: the guard's calls together with
\* the routes of config/cloudinary.js's middleware, for an administrator's
\* account
InitLockout ==
  InitWith({TRUE}, {FALSE}, {"security"}) /\ users = Accounts("admin", schema)

NextLockout ==
  \/ \E ip \in PipelineIPs, e \in UserIds : Login(ip, e, "right")
  \/ \E q \in BagToSet(inflight) : LoginFound(q, "ok")
  \/ \E q \in BagToSet(inflight) : LoginRefetched(q, "ok")
  \/ \E q \in BagToSet(inflight) : LoginCompared(q)
  \/ \E r \in Routes, ip \in PipelineIPs, tok \in Tokens : SecStart(r, ip, tok)
  \/ \E q \in BagToSet(inflight), db \in DbOutcomes : SecLookup(q, db)
  \/ \E q \in BagToSet(inflight), sv \in DbOutcomes : SecSave(q, sv)
  \/ \E ip \in PipelineIPs : RecordFailedLogin(ip)
  \/ \E ip \in PipelineIPs : ResetFailedLogins(ip)
  \/ \E tm \in BagToSet(timers) : TimerFire(tm)
  \/ Sweep
  \/ TickWeek

SpecLockout == InitLockout /\ [][NextLockout]_vars

\* -------------------------------------------- authenticateToken and logout

\* the route whose handler writes the revoked set
RevokeRoutes == {Route("sec", "none", "logout")}

InitRevoke ==
  InitWith({TRUE}, {FALSE}, {"security"}) /\ users = Accounts("admin", schema)

NextRevoke ==
  \/ \E ip \in PipelineIPs, e \in UserIds : Login(ip, e, "right")
  \/ \E q \in BagToSet(inflight) : LoginFound(q, "ok")
  \/ \E q \in BagToSet(inflight) : LoginRefetched(q, "ok")
  \/ \E q \in BagToSet(inflight) : LoginCompared(q)
  \/ \E r \in RevokeRoutes, ip \in PipelineIPs, tok \in Tokens :
        SecStart(r, ip, tok)
  \/ \E q \in BagToSet(inflight), db \in DbOutcomes : SecLookup(q, db)
  \/ \E q \in BagToSet(inflight), sv \in DbOutcomes : SecSave(q, sv)
  \/ \E tm \in BagToSet(timers) : TimerFire(tm)
  \/ Sweep
  \/ TickHalfHour
  \/ TickWeek

SpecRevoke == InitRevoke /\ [][NextRevoke]_vars

\* the login route behind its limiter
InitLogin ==
  InitWith({TRUE}, {FALSE}, Schemas) /\ users = Accounts("user", schema)

NextLogin ==
  \/ \E ip \in PipelineIPs, e \in Emails, pw \in {"right", "wrong"} :
        LimitedLogin(ip, e, pw)
  \/ \E q \in BagToSet(inflight), db \in DbOutcomes : LoginFound(q, db)
  \/ \E q \in BagToSet(inflight), db2 \in DbOutcomes : LoginRefetched(q, db2)
  \/ \E q \in BagToSet(inflight) : LoginCompared(q)
  \/ TickQuarter

SpecLogin == InitLogin /\ [][NextLogin]_vars

\* a process started without JWT_SECRET: connectDB (unnamed/part_006:590)
\* logs that it is not set and the server listens all the same
\* (no token verifies without the secret, so no middleware reaches its
\* account lookup: a request to a middleware ends in its first step)
InitNoSecret == InitWith({FALSE}, {FALSE}, {"security"})

NextNoSecret ==
  \/ \E ip \in PipelineIPs, e \in Emails, pw \in {"right", "wrong"} :
        Login(ip, e, pw)
  \/ \E q \in BagToSet(inflight), db \in DbOutcomes : LoginFound(q, db)
  \/ \E q \in BagToSet(inflight), db2 \in DbOutcomes : LoginRefetched(q, db2)
  \/ \E q \in BagToSet(inflight) : LoginCompared(q)
  \/ \E r \in Routes, ip \in PipelineIPs, tok \in Tokens : SecStart(r, ip, tok)
  \/ \E r \in Routes, ip \in PipelineIPs, tok \in Tokens : PlainStart(r, ip, tok)
  \/ \E r \in Routes, ip \in PipelineIPs, tok \in Tokens :
        RoutesRequest(r, ip, tok)
  \/ \E u \in UserIds : Deactivate(u)
  \/ Sweep
  \/ TickWeek

SpecNoSecret == InitNoSecret /\ [][NextNoSecret]_vars

\* ------------------------------------------------------------------ the gate

\* the routes the repository mounts behind an authenticate variant: logout,
\* the writes of the category and gallery routers (unnamed/part_002:63,
\* unnamed/part_001:29), the uploads (routes/upload.js:45), GET /me
\* (routes/auth.js:165) and the writes of the product, gallery, contact and
\* content routers (routes/products.js:38)
GateRoutes ==
  { Route("sec", "none", "logout"),
    Route("sec", "isAdmin", "handler"),
    Route("mw", "isAdmin", "handler"),
    Route("protect", "admin", "handler"),
    Route("routes", "none", "handler"),
    Route("routes", "isAdmin", "handler") }

\* the tokens of the logins made an hour before the start: a token outlives
\* the process that signed it, and these are good for the rest of their week
RecentTokens ==
  {jwtSign(u, users[u].role, jwtSecretSet, 0 - HOUR) : u \in UserIds}

\* every branch of the four authenticate variants and of the gates behind
\* them, for a deployment that requires the verified email (under the User
\* model that declares no emailVerified the requirement is without effect,
\* as it is where it is not set): either User model, JWT_SECRET set or not,
\* an account of any role that is deactivated or deleted, tokens that are
\* absent, garbage, expired, revoked by logout or good, and a store that
\* answers or throws. The source has failed BlockThreshold - 1 times in the
\* first instant, as nine calls of recordFailedLogin leave the Map and the
\* history: one more blocks it
InitGate ==
  InitFrom(BOOLEAN, {TRUE}, Schemas,
           [i \in PipelineIPs |->
              [count |-> BlockThreshold - 1, lastAttempt |-> 0]],
           [i \in IPs |->
              IF i \in PipelineIPs
                THEN [NoFailures EXCEPT !.burst = BlockThreshold - 1,
                                        !.simul = BlockThreshold - 1]
                ELSE NoFailures])

NextGate ==
  \/ \E r \in GateRoutes, ip \in PipelineIPs,
        tok \in Tokens \cup OldTokens \cup RecentTokens : SecStart(r, ip, tok)
  \/ \E q \in BagToSet(inflight), db \in DbOutcomes : SecLookup(q, db)
  \/ \E q \in BagToSet(inflight), sv \in DbOutcomes : SecSave(q, sv)
  \/ \E r \in GateRoutes, ip \in PipelineIPs,
        tok \in Tokens \cup OldTokens \cup RecentTokens : PlainStart(r, ip, tok)
  \/ \E q \in BagToSet(inflight), db \in DbOutcomes : PlainLookup(q, db)
  \/ \E r \in GateRoutes, ip \in PipelineIPs,
        tok \in Tokens \cup OldTokens \cup RecentTokens :
        RoutesRequest(r, ip, tok)
  \/ \E u \in UserIds : Deactivate(u)
  \/ \E u \in UserIds : DeleteUser(u)
  \/ \E ip \in PipelineIPs : RecordFailedLogin(ip)

SpecGate == InitGate /\ [][NextGate]_vars

\* ------------------------------------------------------------------ roles

\* an administrator promotes an account from user to admin
Promote(u) ==
  /\ users[u].exists /\ users[u].role = "user"
  /\ users' = [users EXCEPT ![u].role = "admin"]
  /\ resp' = [op |-> "promote", user |-> u]
  /\ UNCHANGED <<now, loginAttempts, lastSweep, tokenBlacklist, timers, issued,
                 inflight, rateHits, jwtSecretSet, requireEmailVerification,
                 schema, failLog, wrongLogins, revokedEver>>

\* a deployment whose one account registers with the role user and is promoted
\* later
InitRoles ==
  InitWith({TRUE}, {FALSE}, {"security"}) /\ users = Accounts("user", schema)

NextRoles ==
  \/ \E ip \in PipelineIPs, e \in UserIds : Login(ip, e, "right")
  \/ \E q \in BagToSet(inflight), db \in DbOutcomes : LoginFound(q, db)
  \/ \E q \in BagToSet(inflight) : LoginRefetched(q, "ok")
  \/ \E q \in BagToSet(inflight) : LoginCompared(q)
  \/ \E r \in Routes, ip \in PipelineIPs, tok \in Tokens : SecStart(r, ip, tok)
  \/ \E q \in BagToSet(inflight), db \in DbOutcomes : SecLookup(q, db)
  \/ \E q \in BagToSet(inflight), sv \in DbOutcomes : SecSave(q, sv)
  \/ \E r \in Routes, ip \in PipelineIPs, tok \in Tokens : PlainStart(r, ip, tok)
  \/ \E q \in BagToSet(inflight), db \in DbOutcomes : PlainLookup(q, db)
  \/ \E r \in Routes, ip \in PipelineIPs, tok \in Tokens :
        RoutesRequest(r, ip, tok)
  \/ \E u \in UserIds : Promote(u)
  \/ \E tm \in BagToSet(timers) : TimerFire(tm)
  \/ Sweep
  \/ TickWeek

SpecRoles == InitRoles /\ [][NextRoles]_vars

\* ------------------------------------------------------------------ optionalUser

\* proceeding without an identity: nothing is sent, next is called
Anonymous(stages) == Pass(NoIdentity, FALSE, stages)

\* optionalUser (config/cloudinary.js:379) up to the await of User.findById:
\* a token that is absent or blacklisted is skipped; every error of
\* validateJWTSecret and jwt.verify is caught and logged; next() follows in
\* every case
optionalUser_strict(tok, bl, secretSet, t) ==
  LET v == jwtVerify(tok, EnvSecret, t)
      done(r) == [pc |-> "done", res |-> r, uid |-> "-"]
  IN
  IF tok.kind = "none" THEN done(Anonymous({"extract"}))
  ELSE IF tok \in bl THEN done(Anonymous({"extract", "revocation"}))
  ELSE IF ~secretSet THEN done(Anonymous({"extract", "revocation"}))
  ELSE IF v # "ok"
    THEN done(Stop(401, "invalid", {"requiresAuth"},
                   {"extract", "revocation", "verify"}))
  ELSE [pc |-> "lookup",
        res |-> Stop(0, "pending", {}, {"extract", "revocation", "verify"}),
        uid |-> idOrUserId(tok)]

optionalUser(tok, bl, secretSet, t) ==
  LET v == jwtVerify(tok, EnvSecret, t)
      done(r) == [pc |-> "done", res |-> r, uid |-> "-"]
  IN
  IF tok.kind = "none" THEN done(Anonymous({"extract"}))
  ELSE IF tok \in bl THEN done(Anonymous({"extract", "revocation"}))
  ELSE IF ~secretSet THEN done(Anonymous({"extract", "revocation"}))
  ELSE IF v # "ok" THEN done(Anonymous({"extract", "revocation", "verify"}))
  ELSE [pc |-> "lookup",
        res |-> Stop(0, "pending", {}, {"extract", "revocation", "verify"}),
        uid |-> idOrUserId(tok)]

\* from the answer of User.findById on: the document found is attached, and
\* null when there is none; an error of the lookup is caught and logged
optionalUser_lookup(uid, db, us, stages) ==
  LET st == stages \cup {"lookup"} IN
  IF db = "throws" THEN Anonymous(st)
  ELSE IF ~userFound(us, uid) THEN Anonymous(st)
  ELSE Pass([id |-> uid, role |-> us[uid].role], FALSE, st)

\* optionalUser (unnamed/part_000:220): the same without the blacklist, with
\* jwt.verify(token, process.env.JWT_SECRET), which throws for no secret
optionalUser_mw(tok, secretSet, t) ==
  LET v == jwtVerify(tok, IF secretSet THEN EnvSecret ELSE NoSecret, t)
      done(r) == [pc |-> "done", res |-> r, uid |-> "-"]
  IN
  IF tok.kind = "none" THEN done(Anonymous({"extract"}))
  ELSE IF v # "ok" THEN done(Anonymous({"extract", "verify"}))
  ELSE [pc |-> "lookup", res |-> Stop(0, "pending", {}, {"extract", "verify"}),
        uid |-> idOrUserId(tok)]

optionalUser_mw_lookup(uid, db, us, stages) ==
  LET st == stages \cup {"lookup"} IN
  IF db = "throws" THEN Anonymous(st)
  ELSE IF ~userFound(us, uid) THEN Anonymous(st)
  ELSE Pass([id |-> uid, role |-> us[uid].role], FALSE, st)

OptionalVariants == {"sec", "mw"}

OptionalResp(variant, ip, tok, auth, entry, db) ==
  [op |-> "optional", variant |-> variant, ip |-> ip, tok |-> tok,
   auth |-> auth, entry |-> entry, db |-> db]

OptionalCall(variant, ip, tok, s1) ==
  [kind |-> "optional", variant |-> variant, ip |-> ip, tok |-> tok,
   pc |-> "lookup", uid |-> s1.uid, stages |-> s1.res.stages,
   entry |-> Entry(tok, ip, s1.res)]

\* a request to a route behind optionalUser enters it and runs to its await
OptStart(variant, ip, tok) ==
  /\ LET s1 == IF variant = "sec"
                 THEN optionalUser(tok, tokenBlacklist, jwtSecretSet, now)
                 ELSE optionalUser_mw(tok, jwtSecretSet, now)
     IN IF s1.pc = "done"
          THEN /\ resp' = OptionalResp(variant, ip, tok, s1.res,
                                       Entry(tok, ip, s1.res), "-")
               /\ UNCHANGED inflight
          ELSE /\ Room(OptionalCall(variant, ip, tok, s1))
               /\ inflight' = inflight (+) Waiting(
                                 OptionalCall(variant, ip, tok, s1))
               /\ resp' = NoResp
  /\ UNCHANGED <<now, loginAttempts, lastSweep, tokenBlacklist, timers, users,
                 issued, rateHits, jwtSecretSet, requireEmailVerification,
                 schema, failLog, wrongLogins, revokedEver>>

\* User.findById answers and next() is called
OptLookup(q, db) ==
  /\ BagIn(q, inflight)
  /\ q.kind = "optional"
  /\ LET a == IF q.variant = "sec"
                THEN optionalUser_lookup(q.uid, db, users, q.stages)
                ELSE optionalUser_mw_lookup(q.uid, db, users, q.stages)
     IN resp' = OptionalResp(q.variant, q.ip, q.tok, a, Met(q).entry, db)
  /\ inflight' = inflight (-) Waiting(q)
  /\ UNCHANGED <<now, loginAttempts, lastSweep, tokenBlacklist, timers, users,
                 issued, rateHits, jwtSecretSet, requireEmailVerification,
                 schema, failLog, wrongLogins, revokedEver>>

\* ------------------------------------------------------------------ what is shown

\* the paths of a user document (unnamed/part_003:37) that the responses and
\* the projections name
DocKeys ==
  {"_id", "email", "password", "userType", "role", "firstName", "lastName",
   "companyName", "contactPerson", "isActive", "__v", "resetPasswordToken",
   "resetPasswordExpire"}

UserTypes == {"individual", "company"}

\* a query without select: a path declared select: false (unnamed/part_003:62)
\* is left out; the schema of unnamed/part_003:469 declares password without it
find(selectFalse) == DocKeys \ (IF selectFalse THEN {"password"} ELSE {})

\* .select('-a -b'): the paths named are left out
select_kept(keys, minus) == keys

select(keys, minus) == keys \ minus

\* the user object of the 201 response of register (routes/auth.js:40, 93)
registerBody(userType) ==
  {"id", "email", "userType", "role"}
    \cup (IF userType = "individual" THEN {"firstName", "lastName"}
                                     ELSE {"companyName", "contactPerson"})

\* userData of the login response (routes/auth.js:139)
loginBody(userType) ==
  {"id", "email", "userType", "role"}
    \cup (IF userType = "individual" THEN {"firstName", "lastName"}
                                     ELSE {"companyName", "contactPerson"})

\* GET /me (routes/auth.js:167): res.json of the document found
meBody(selectFalse) == select(find(selectFalse), {"password"})

\* req.user of each middleware: the document found by the three that look
\* the account up and by optionalUser, the token's payload in routes/auth.js
reqUser(mw, selectFalse) ==
  CASE mw = "sec" ->
         select(find(selectFalse),
                {"password", "__v", "resetPasswordToken", "resetPasswordExpire"})
    [] mw \in {"mw", "protect", "optional"} ->
         select(find(selectFalse), {"password"})
    [] OTHER -> {"userId", "role", "userType", "iat", "exp"}

\* POST /api/auth/register/individual and /company (routes/auth.js:10, 57) up
\* to the second await: what User.findOne leads to
registerRoute_findOne(email, us, db) ==
  IF db = "throws"
    THEN [pc |-> "done", status |-> 500, why |-> "registration_failed"]
  ELSE IF findOne(us, email) # NoId
    THEN [pc |-> "done", status |-> 400, why |-> "already_registered"]
  ELSE [pc |-> "save", status |-> 0, why |-> "pending"]

\* the _id of new User(...): one the store has not given out
ObjectId(us) == CHOOSE d \in DOMAIN us : us[d] = NoUser

\* from the answer of user.save() on: the account is created under a new _id
\* with the default role and a token is signed for it; the save is rejected
\* when the store fails and when the unique email has been taken in the
\* meantime
registerRoute(email, us, secretSet, t, sv) ==
  IF sv = "throws" \/ findOne(us, email) # NoId
    THEN [status |-> 500, why |-> "registration_failed", token |-> NoToken,
          created |-> FALSE, id |-> NoId]
  ELSE [status |-> 201, why |-> "ok",
        token |-> jwtSign(ObjectId(us), "user", secretSet, t),
        created |-> TRUE, id |-> ObjectId(us)]

RegisterResp(q, status, why, token) ==
  [op |-> "register", email |-> q.email, userType |-> q.userType,
   status |-> status, why |-> why, token |-> token]

RegisterCall(email, userType) ==
  [kind |-> "register", email |-> email, userType |-> userType, pc |-> "find"]

\* the handler runs to the await of User.findOne
Register(email, userType) ==
  LET q == RegisterCall(email, userType) IN
  /\ Room(q)
  /\ inflight' = inflight (+) Waiting(q)
  /\ resp' = NoResp
  /\ UNCHANGED <<now, loginAttempts, lastSweep, tokenBlacklist, timers, users,
                 issued, rateHits, jwtSecretSet, requireEmailVerification,
                 schema, failLog, wrongLogins, revokedEver>>

\* User.findOne answers: the handler answers 500 or 400, or builds the
\* document and awaits user.save. NewIds bounds the documents that
\* registrations create
RegisterFound(q, db) ==
  LET f == registerRoute_findOne(q.email, users, db) IN
  /\ BagIn(q, inflight)
  /\ q.kind = "register" /\ q.pc = "find"
  /\ IF f.pc = "done"
       THEN /\ resp' = RegisterResp(q, f.status, f.why, NoToken)
            /\ inflight' = inflight (-) Waiting(q)
       ELSE /\ \E d \in DocIds : users[d] = NoUser
            /\ inflight' = (inflight (-) Waiting(q)) (+) Waiting(
                   [q EXCEPT !.pc = "save"])
            /\ resp' = NoResp
  /\ UNCHANGED <<now, loginAttempts, lastSweep, tokenBlacklist, timers, users,
                 issued, rateHits, jwtSecretSet, requireEmailVerification,
                 schema, failLog, wrongLogins, revokedEver>>

\* user.save answers; the store has an _id left for the document
RegisterSaved(q, sv) ==
  /\ BagIn(q, inflight)
  /\ q.kind = "register" /\ q.pc = "save"
  /\ (sv = "ok" /\ findOne(users, q.email) = NoId)
       => \E d \in DocIds : users[d] = NoUser
  /\ LET r == registerRoute(q.email, users, jwtSecretSet, now, sv) IN
       /\ issued' = IF r.created THEN issued \cup {r.token} ELSE issued
       /\ users' = IF r.created
                     THEN [users EXCEPT ![r.id] = NewUser(q.email, "user", schema)]
                     ELSE users
       /\ resp' = RegisterResp(q, r.status, r.why, r.token)
  /\ inflight' = inflight (-) Waiting(q)
  /\ UNCHANGED <<now, loginAttempts, lastSweep, tokenBlacklist, timers,
                 rateHits, jwtSecretSet, requireEmailVerification, schema,
                 failLog, wrongLogins, revokedEver>>

\* a route behind each authenticate variant, logout among them
OptionalRoutes ==
  { Route("sec", "none", "logout"),
    Route("mw", "isAdmin", "handler"),
    Route("protect", "admin", "handler"),
    Route("routes", "none", "handler") }

InitOptional ==
  InitWith(BOOLEAN, {FALSE}, {"security"}) /\ users = Accounts("user", schema)

NextOptional ==
  \/ \E e \in UserIds, ut \in UserTypes : Register(e, ut)
  \/ \E q \in BagToSet(inflight), db \in DbOutcomes : RegisterFound(q, db)
  \/ \E q \in BagToSet(inflight), sv \in DbOutcomes : RegisterSaved(q, sv)
  \/ \E ip \in PipelineIPs, e \in Emails, pw \in {"right", "wrong"} :
        Login(ip, e, pw)
  \/ \E q \in BagToSet(inflight), db \in DbOutcomes : LoginFound(q, db)
  \/ \E q \in BagToSet(inflight), db2 \in DbOutcomes : LoginRefetched(q, db2)
  \/ \E q \in BagToSet(inflight) : LoginCompared(q)
  \/ \E v \in OptionalVariants, ip \in PipelineIPs,
        tok \in Tokens \cup OldTokens : OptStart(v, ip, tok)
  \/ \E q \in BagToSet(inflight), db \in DbOutcomes : OptLookup(q, db)
  \/ \E r \in OptionalRoutes, ip \in PipelineIPs, tok \in Tokens \cup OldTokens :
        SecStart(r, ip, tok)
  \/ \E q \in BagToSet(inflight), db \in DbOutcomes : SecLookup(q, db)
  \/ \E q \in BagToSet(inflight), sv \in DbOutcomes : SecSave(q, sv)
  \/ \E r \in OptionalRoutes, ip \in PipelineIPs, tok \in Tokens \cup OldTokens :
        PlainStart(r, ip, tok)
  \/ \E q \in BagToSet(inflight), db \in DbOutcomes : PlainLookup(q, db)
  \/ \E r \in OptionalRoutes, ip \in PipelineIPs, tok \in Tokens \cup OldTokens :
        RoutesRequest(r, ip, tok)
  \/ \E u \in UserIds : Deactivate(u)
  \/ \E u \in UserIds : DeleteUser(u)

SpecOptional == InitOptional /\ [][NextOptional]_vars

\* ------------------------------------------------------------------ account lock

\* the isLocked virtual (unnamed/part_003:271)
isLocked(this, t) == this.lockUntil # 0 /\ this.lockUntil > t

\* incLoginAttempts (unnamed/part_003:368): the conditions read the document
\* the caller holds, updateOne writes the stored one
incLoginAttempts_late(this, stored, t) ==
  IF this.lockUntil # 0 /\ this.lockUntil < t
    THEN [stored EXCEPT !.loginAttempts = 1, !.lockUntil = 0]
  ELSE [stored EXCEPT
          !.loginAttempts = @ + 1,
          !.lockUntil = IF this.loginAttempts + 1 > LockThreshold
                           /\ ~isLocked(this, t)
                          THEN t + LockTime ELSE @]

incLoginAttempts(this, stored, t) ==
  IF this.lockUntil # 0 /\ this.lockUntil < t
    THEN [stored EXCEPT !.loginAttempts = 1, !.lockUntil = 0]
  ELSE [stored EXCEPT
          !.loginAttempts = @ + 1,
          !.lockUntil = IF this.loginAttempts + 1 >= LockThreshold
                           /\ ~isLocked(this, t)
                          THEN t + LockTime ELSE @]

\* resetLoginAttempts (unnamed/part_003:389)
resetLoginAttempts(stored) ==
  [stored EXCEPT !.loginAttempts = 0, !.lockUntil = 0]

\* findByCredentials (unnamed/part_003:425) up to the password comparison:
\* what it throws, or "compare" when comparePassword is awaited
findByCredentials_find(us, email, t, db) ==
  IF db = "throws" THEN "error"
  ELSE IF findOne(us, email) = NoId THEN "invalid"
  ELSE IF isLocked(us[findOne(us, email)], t) THEN "locked"
  ELSE "compare"

\* after the comparison: an update is awaited (unnamed/part_003:441, 447)
\* unless the password matched and the document held counts no failure
findByCredentials_awaits(this, isMatch) == ~isMatch \/ this.loginAttempts > 0

\* findByCredentials from the store's answer to its update on: the outcome
\* and the stored document. The update was computed from the document held,
\* with the Date.now() of the instant it was issued (at); sv is the store's
\* answer, and a rejected update is thrown to the caller and changes nothing
findByCredentials_write(this, stored, isMatch, at, sv) ==
  IF sv = "throws" THEN [outcome |-> "error", doc |-> stored]
  ELSE IF ~isMatch
    THEN [outcome |-> "invalid", doc |-> incLoginAttempts(this, stored, at)]
  ELSE [outcome |-> "ok",
        doc |-> IF this.loginAttempts > 0 THEN resetLoginAttempts(stored)
                                          ELSE stored]

\* the lock paths of a document
lockPaths(us, id) ==
  IF userFound(us, id)
    THEN [loginAttempts |-> us[id].loginAttempts,
          lockUntil |-> us[id].lockUntil]
  ELSE [loginAttempts |-> 0, lockUntil |-> 0]

\* history: the failed password checks in a row, each made when the one
\* before had been answered, since the source's last success; a check that
\* overlapped another ends the row
logCheck(n, outcome, alone) ==
  IF outcome = "ok" \/ ~alone THEN 0
  ELSE IF outcome = "invalid" /\ n < LockThreshold + 1 THEN n + 1
  ELSE n

\* a call between two awaits: this is the document it holds, entered the
\* instant findOne answered, at the instant its update was issued; alone
\* (history): no other call has been in flight with it
CredCall(ip, email, pw) ==
  [kind |-> "credentials", ip |-> ip, email |-> email, pw |-> pw,
   pc |-> "find", id |-> NoId, this |-> lockPaths(users, NoId),
   isMatch |-> FALSE, entered |-> now, at |-> now,
   alone |-> \A p \in BagToSet(inflight) : p.kind # "credentials"]

\* history: the calls in flight when another call joins them
Overlapped(b) ==
  BagOfAll(LAMBDA p : IF p.kind = "credentials" THEN [p EXCEPT !.alone = FALSE]
                      ELSE p, b)

\* the answer of a call: before is the document the call held
CredResp(q, outcome, streak) ==
  [op |-> "credentials", email |-> q.email, id |-> q.id, pw |-> q.pw,
   outcome |-> outcome, before |-> q.this, entered |-> q.entered, at |-> q.at,
   streak |-> streak]

\* a call of findByCredentials runs to the await of findOne; the calls in
\* flight overlap with it
FindByCredentials(ip, email, pw) ==
  LET q == CredCall(ip, email, pw) IN
  /\ Room(q)
  /\ inflight' = Overlapped(inflight) (+) Waiting(q)
  /\ resp' = NoResp
  /\ UNCHANGED <<now, loginAttempts, lastSweep, tokenBlacklist, timers, users,
                 issued, rateHits, jwtSecretSet, requireEmailVerification,
                 schema, failLog, wrongLogins, revokedEver>>

\* findOne answers: the call throws, or holds the document it found until it
\* is done and awaits comparePassword
CredFound(q, db) ==
  LET c == findByCredentials_find(users, q.email, now, db)
      h == [q EXCEPT !.id = findOne(users, q.email),
                     !.this = lockPaths(users, findOne(users, q.email)),
                     !.entered = now, !.at = now]
  IN
  /\ BagIn(q, inflight)
  /\ q.kind = "credentials" /\ q.pc = "find"
  /\ IF c = "compare"
       THEN /\ inflight' = (inflight (-) Waiting(q)) (+) Waiting(
                   [h EXCEPT !.pc = "compare"])
            /\ resp' = NoResp
       ELSE /\ inflight' = inflight (-) Waiting(q)
            /\ resp' = CredResp(h, c, wrongLogins[q.ip])
  /\ UNCHANGED <<now, loginAttempts, lastSweep, tokenBlacklist, timers, users,
                 issued, rateHits, jwtSecretSet, requireEmailVerification,
                 schema, failLog, wrongLogins, revokedEver>>

\* the lookup inside comparePassword answers: with the document and its hash
\* bcrypt.compare is awaited; when the lookup is rejected or finds nothing
\* comparePassword returns false and the call issues its update in the same
\* turn, with the Date.now() of this instant
CredRefetched(q, db2) ==
  LET c == comparePassword(q.pw, users, q.id, db2) IN
  /\ BagIn(q, inflight)
  /\ q.kind = "credentials" /\ q.pc = "compare"
  /\ inflight' = (inflight (-) Waiting(q)) (+) Waiting(
         IF c.pc = "hash" THEN [q EXCEPT !.pc = "hash", !.isMatch = c.isMatch]
         ELSE [q EXCEPT !.pc = "update", !.isMatch = c.isMatch, !.at = now])
  /\ resp' = NoResp
  /\ UNCHANGED <<now, loginAttempts, lastSweep, tokenBlacklist, timers, users,
                 issued, rateHits, jwtSecretSet, requireEmailVerification,
                 schema, failLog, wrongLogins, revokedEver>>

\* bcrypt.compare answers: the call computes its update with the Date.now()
\* of this instant, issues it and awaits the store, or returns the document
\* at once when there is nothing to update
CredCompared(q) ==
  /\ BagIn(q, inflight)
  /\ q.kind = "credentials" /\ q.pc = "hash"
  /\ IF findByCredentials_awaits(q.this, q.isMatch)
       THEN /\ inflight' = (inflight (-) Waiting(q)) (+) Waiting(
                   [q EXCEPT !.pc = "update", !.at = now])
            /\ resp' = NoResp
            /\ UNCHANGED wrongLogins
       ELSE /\ inflight' = inflight (-) Waiting(q)
            /\ resp' = CredResp([q EXCEPT !.at = now], "ok", 0)
            /\ wrongLogins' = [wrongLogins EXCEPT ![q.ip] = 0]
  /\ UNCHANGED <<now, loginAttempts, lastSweep, tokenBlacklist, timers, users,
                 issued, rateHits, jwtSecretSet, requireEmailVerification,
                 schema, failLog, revokedEver>>

\* the store answers the update: applied to the stored document, and the
\* call throws or returns; or rejected, and the call throws the store's
\* error. A lock that is set or cleared starts a new run of failures
CredFinish(q, sv) ==
  LET w == findByCredentials_write(q.this, users[q.id], q.isMatch, q.at, sv)
      streak == logCheck(wrongLogins[q.ip], w.outcome, q.alone)
  IN
  /\ BagIn(q, inflight)
  /\ q.kind = "credentials" /\ q.pc = "update"
  /\ users' = IF userFound(users, q.id) THEN [users EXCEPT ![q.id] = w.doc]
                                        ELSE users
  /\ wrongLogins' =
       [wrongLogins EXCEPT
          ![q.ip] = IF users'[q.id].lockUntil # users[q.id].lockUntil
                      THEN 0 ELSE streak]
  /\ inflight' = inflight (-) Waiting(q)
  /\ resp' = CredResp(q, w.outcome, streak)
  /\ UNCHANGED <<now, loginAttempts, lastSweep, tokenBlacklist, timers, issued,
                 rateHits, jwtSecretSet, requireEmailVerification, schema,
                 failLog, revokedEver>>

\* the calls of findByCredentials of one instant: a call is made whenever
\* there is room, while others wait for the store or for bcrypt
NextAccount ==
  \/ \E ip \in PipelineIPs, e \in Emails, pw \in {"right", "wrong"} :
        FindByCredentials(ip, e, pw)
  \/ \E q \in BagToSet(inflight), db \in DbOutcomes : CredFound(q, db)
  \/ \E q \in BagToSet(inflight), db2 \in DbOutcomes : CredRefetched(q, db2)
  \/ \E q \in BagToSet(inflight) : CredCompared(q)
  \/ \E q \in BagToSet(inflight), sv \in DbOutcomes : CredFinish(q, sv)

\* findByCredentials and the lock paths are those of the schema of
\* unnamed/part_003:41, which InitLockout deploys
SpecAccount == InitLockout /\ [][NextAccount]_vars

\* the calls on the one account while the clock runs over the two hours of
\* the lock and beyond
NextAccountClock ==
  \/ \E ip \in PipelineIPs, e \in UserIds, pw \in {"right", "wrong"} :
        FindByCredentials(ip, e, pw)
  \/ \E q \in BagToSet(inflight) : CredFound(q, "ok")
  \/ \E q \in BagToSet(inflight), db2 \in DbOutcomes : CredRefetched(q, db2)
  \/ \E q \in BagToSet(inflight) : CredCompared(q)
  \/ \E q \in BagToSet(inflight), sv \in DbOutcomes : CredFinish(q, sv)
  \/ Sweep
  \/ TickHour

SpecAccountClock == InitLockout /\ [][NextAccountClock]_vars

\* ------------------------------------------------------------------ the sweep

\* the guard over several hours: records grow old enough for the sweep
NextSweep ==
  \/ \E ip \in IPs : RecordFailedLogin(ip)
  \/ \E ip \in IPs : CheckBlocked(ip)
  \/ Sweep
  \/ TickHour

SpecSweep == InitGuard /\ [][NextSweep]_vars

\* ------------------------------------------------------------------ claims

\* C1: a request that carries a token which is in the revoked set when the
\* request enters authenticate, and which would otherwise verify, is answered
\* 401 token revoked and its handler does not run, behind the authenticate of
\* config/cloudinary.js and behind the authenticate of routes/auth.js alike.
C1_RevokedTokenRejected ==
  (/\ resp.op = "request"
   /\ resp.route.mw \in {"sec", "routes"}
   /\ resp.entry.revoked
   /\ resp.entry.verdict = "ok")
    => (/\ resp.auth.status = 401
        /\ resp.auth.why = "revoked"
        /\ ~resp.handlerRan)

\* C2: a login request that arrives after 10 wrong-password login attempts
\* from its source, with no successful login in between and inside the
\* lockout window, is answered 429, whatever password it carries.
C2_EleventhLoginBlocked ==
  (/\ resp.op = "login"
   /\ resp.wrongBefore >= BlockThreshold)
    => resp.status = 429

\* C3: for every source ip, once a run of 10 or more failures has been
\* recorded and less than the window has passed since the last of them,
\* isIPBlocked answers true; once more than the window has passed since the
\* last recorded failure, it answers false.
C3_BlockedInsideWindowOnly ==
  \A ip \in IPs :
    LET f == failLog[ip]
        r == isIPBlocked(loginAttempts, ip, now)
    IN /\ (f.burst >= BlockThreshold /\ now - f.last < HOUR => r.blocked)
       /\ (f.burst > 0 /\ now - f.last > HOUR => ~r.blocked)

\* a source that was seen blocked after 10 failures is answered "not blocked"
\* once the window has passed
C3_Witness ==
  \E ip \in IPs :
    /\ failLog[ip].burst >= BlockThreshold
    /\ failLog[ip].seenBlocked
    /\ now - failLog[ip].last > HOUR
    /\ resp = [op |-> "isIPBlocked", ip |-> ip, blocked |-> FALSE]


\* C4: the handler of a route runs only if authenticate called next and the
\* route's gate then called next, and only for a token that verifies; every
\* middleware either sends a response or calls next, never both and never
\* neither.
C4_HardGate ==
  resp.op = "request" =>
    /\ resp.handlerRan => (resp.auth.next /\ resp.gate.next)
    /\ resp.handlerRan => (resp.tok.kind = "jwt" /\ resp.entry.verdict = "ok")
    /\ resp.auth.next <=> resp.auth.status = 0
    /\ resp.auth.next => (resp.gate.next <=> resp.gate.status = 0)
    /\ ~resp.auth.next => resp.gate = NotRun

C4_Witness ==
  /\ resp.op = "request"
  /\ resp.route = Route("routes", "isAdmin", "handler")
  /\ resp.auth.next
  /\ resp.gate.status = 403
  /\ ~resp.gate.next
  /\ ~resp.handlerRan

\* C5: behind authorize('admin') an attached identity of role superadmin is
\* let through to the handler, and one of role user is answered 403.
C5_AuthorizeAdminAdmitsSuperadmin ==
  (/\ resp.op = "request"
   /\ resp.route.gate = "authorize"
   /\ resp.auth.next)
    => /\ resp.auth.user.role = "superadmin" => (resp.gate.next /\ resp.handlerRan)
       /\ resp.auth.user.role = "user" => (resp.gate.status = 403 /\ ~resp.handlerRan)

\* C6: every admin gate lets through exactly the attached identities of role
\* admin or superadmin, the superadmin gate exactly those of role superadmin,
\* and an identity of any other role is answered 403.
C6_GatesAgreeOnRoles ==
  (/\ resp.op = "request"
   /\ resp.auth.next
   /\ resp.route.gate \in {"isAdmin", "admin", "isSuperAdmin"})
    => LET allowed == IF resp.route.gate = "isSuperAdmin" THEN {"superadmin"}
                      ELSE {"admin", "superadmin"}
       IN IF resp.auth.user.role \in allowed
            THEN resp.gate.next /\ resp.handlerRan
          ELSE resp.gate.status = 403 /\ ~resp.handlerRan


\* C7: behind the authenticate of config/cloudinary.js, a token that logout
\* has revoked stays in the revoked set for as long as it verifies, and a
\* request that enters authenticate with such a token is never accepted: the
\* timer that evicts the entry fires no earlier than the token's expiry.
C7_RevokedUntilExpiry ==
  /\ \A tok \in revokedEver :
       jwtVerify(tok, JWT_SECRET(jwtSecretSet), now) = "ok"
         => tok \in tokenBlacklist
  /\ (/\ resp.op = "request"
      /\ resp.route.mw = "sec"
      /\ resp.entry.everRevoked)
       => (~resp.auth.next /\ ~resp.handlerRan)

\* a revoked token has been evicted while a second logout's timer is pending,
\* and a request that carried it afterwards has been answered
C7_Witness ==
  /\ resp.op = "request"
  /\ resp.route.mw = "sec"
  /\ resp.entry.everRevoked
  /\ ~resp.entry.revoked
  /\ resp.tok \notin tokenBlacklist
  /\ \E tm \in BagToSet(timers) : tm.tok = resp.tok

\* C8: a request from a blocked source is answered 429 with the time the
\* block ends, whatever token it carries, and authenticate goes no further
\* than the source check: no token is read, no revocation is looked up,
\* nothing is verified and no account is looked up.
C8_LockoutFirst ==
  (/\ resp.op = "request"
   /\ resp.route.mw = "sec"
   /\ resp.entry.blocked)
    => (/\ resp.auth.status = 429
        /\ "blockedUntil" \in resp.auth.fields
        /\ resp.auth.stages = {"ip"}
        /\ ~resp.auth.next
        /\ ~resp.handlerRan)

C8_Witness ==
  /\ resp.op = "request"
  /\ resp.route.mw = "sec"
  /\ resp.entry.blocked
  /\ resp.tok = NoToken
  /\ resp.auth.status = 429

\* C9: behind every authenticate variant, a request whose token verifies and
\* names an account whose active flag is false is answered 403, no identity
\* is attached and the handler does not run.
C9_InactiveForbidden ==
  (/\ resp.op = "request"
   /\ ~resp.entry.blocked
   /\ ~resp.entry.revoked
   /\ resp.entry.verdict = "ok"
   /\ resp.entry.found
   /\ ~resp.entry.active
   /\ resp.db # "throws")
    => (/\ resp.auth.status = 403
        /\ resp.auth.user = NoIdentity
        /\ ~resp.handlerRan)

\* C10: behind the authenticate of config/cloudinary.js, a request whose
\* account lookup throws is answered with a status of the 500 class.
C10_LookupFailureIs500 ==
  (/\ resp.op = "request"
   /\ resp.route.mw = "sec"
   /\ resp.db = "throws")
    => resp.auth.status >= 500

\* C11: behind the authenticate of config/cloudinary.js, a request that passed
\* every check and whose last-active write fails is still let through: the
\* identity and the token are attached and next is called.
C11_LastActiveFailureIgnored ==
  (/\ resp.op = "request"
   /\ resp.route.mw = "sec"
   /\ resp.sv = "throws")
    => (/\ resp.auth.next
        /\ resp.auth.user # NoIdentity
        /\ resp.auth.token)

\* C12: in a process whose JWT_SECRET is absent no token is ever issued and
\* no login or protected request is ever answered.
C12_NoSecretNoService ==
  ~jwtSecretSet => (issued = {} /\ resp.op \notin {"login", "request"})

\* C13: for every source, N calls of recordFailedLogin made at one instant,
\* the first of which found no record, leave the source's count at exactly N,
\* whatever other calls are interleaved with them.
C13_NoLostIncrement ==
  \A ip \in IPs :
    (failLog[ip].simul > 0 /\ failLog[ip].last = now)
      => recordCount(loginAttempts, ip) = failLog[ip].simul

C13_Witness ==
  \E ip \in IPs :
    /\ failLog[ip].simul = BlockThreshold
    /\ failLog[ip].last = now
    /\ recordCount(loginAttempts, ip) = BlockThreshold
    /\ resp = [op |-> "recordFailedLogin", ip |-> ip]

\* C14: for every source, a reset that finds 9 recorded failures leaves the
\* count at 0 and the source not blocked, and the first failure recorded
\* after it yields count 1 and does not block the source.
C14_ResetClearsCount ==
  \A ip \in IPs :
    failLog[ip].afterNine =>
      /\ failLog[ip].sinceReset = 0 =>
           /\ recordCount(loginAttempts, ip) = 0
           /\ ~isIPBlocked(loginAttempts, ip, now).blocked
      /\ failLog[ip].sinceReset = 1 =>
           /\ recordCount(loginAttempts, ip) <= 1
           /\ ~isIPBlocked(loginAttempts, ip, now).blocked
           /\ resp = [op |-> "recordFailedLogin", ip |-> ip]
                => recordCount(loginAttempts, ip) = 1

C14_Witness ==
  \E ip \in IPs :
    /\ failLog[ip].afterNine
    /\ failLog[ip].sinceReset = 1
    /\ resp = [op |-> "recordFailedLogin", ip |-> ip]
    /\ recordCount(loginAttempts, ip) = 1
    /\ ~isIPBlocked(loginAttempts, ip, now).blocked

\* C15: isIPBlocked is a pure read: in every state of the store and at every
\* clock value a call leaves the store exactly as it was.
C15_IsBlockedPureRead ==
  \A ip \in IPs : isIPBlocked(loginAttempts, ip, now).la = loginAttempts

\* C16: a source's count never exceeds the number of failures of its current
\* run, a run being failures each at most the window after the one before;
\* and a source is blocked only by a run of at least 10 failures.
C16_CountWithinWindowOnly ==
  \A ip \in IPs :
    /\ recordCount(loginAttempts, ip) <= failLog[ip].burst
    /\ isIPBlocked(loginAttempts, ip, now).blocked
         => failLog[ip].burst >= BlockThreshold

\* C17: behind the authenticate of config/cloudinary.js, of unnamed/part_000
\* and of routes/auth.js, a token whose signature is valid and whose expiry
\* has passed is answered 401 with the expired marker.
C17_ExpiredIsDistinct ==
  (/\ resp.op = "request"
   /\ resp.route.mw \in {"sec", "mw", "routes"}
   /\ ~resp.entry.blocked
   /\ ~resp.entry.revoked
   /\ resp.entry.verdict = "TokenExpiredError")
    => (/\ resp.auth.status = 401
        /\ "expired" \in resp.auth.fields)

\* C18: behind every authenticate variant a request with no token, with an
\* invalid token, with an expired token, with a revoked token or with a token
\* whose account no longer exists is answered 401.
C18_Always401 ==
  (/\ resp.op = "request"
   /\ ~resp.entry.blocked
   /\ resp.db # "throws"
   /\ \/ resp.tok = NoToken
      \/ resp.entry.verdict # "ok"
      \/ resp.entry.revoked
      \/ ~resp.entry.found)
    => resp.auth.status = 401

\* C19: behind the authenticate of config/cloudinary.js the response to a
\* revoked, an expired or a malformed token differs from the response to a
\* request without a token in its status or in its fields other than the
\* message.
C19_ReasonCodesDiffer ==
  (/\ resp.op = "request"
   /\ resp.route.mw = "sec"
   /\ ~resp.entry.blocked
   /\ resp.tok # NoToken
   /\ resp.entry.revoked \/ resp.entry.verdict # "ok")
    => LET unauth == authenticateToken(NoToken, resp.ip, loginAttempts,
                                       tokenBlacklist, jwtSecretSet, now).res
       IN <<resp.auth.status, resp.auth.fields>>
            # <<unauth.status, unauth.fields>>

\* C20: a token that login issued for an active account, presented at once,
\* is accepted by every authenticate variant, which attaches the id and the
\* role the token was issued with.
C20_IssuedTokenAccepted ==
  (/\ resp.op = "request"
   /\ resp.tok \in issued
   /\ resp.tok.iat = now \div 1000
   /\ resp.entry.active
   /\ ~resp.entry.blocked
   /\ ~resp.entry.revoked
   /\ resp.db # "throws"
   /\ resp.sv # "throws"
   /\ ~requireEmailVerification)
    => (/\ resp.auth.next
        /\ resp.auth.user = [id |-> resp.tok.uid, role |-> resp.tok.role])

\* C21: a token issued while the account had the role user is answered 403 at
\* an admin gate, also after the account has been promoted to admin; only a
\* token of a login after the promotion passes the gate
C21_RoleOfIssuance ==
  (/\ resp.op = "request"
   /\ resp.route.gate \in {"isAdmin", "admin"}
   /\ resp.tok.kind = "jwt"
   /\ resp.tok.role = "user"
   /\ resp.auth.next)
  => resp.status = 403 /\ ~resp.handlerRan

\* C22: optionalUser answers no request itself and calls next, whatever the
\* token, the lookup and the configuration; it attaches an identity only when
\* the token verified and the lookup returned the account
C22_OptionalNeverFails ==
  resp.op = "optional" =>
    /\ resp.auth.status = 0
    /\ resp.auth.next
    /\ resp.auth.user # NoIdentity =>
         /\ jwtSecretSet
         /\ resp.entry.verdict = "ok"
         /\ resp.entry.found
         /\ resp.db = "ok"
         /\ resp.auth.user.id = resp.tok.uid

C22_Witness ==
  /\ resp.op = "optional"
  /\ resp.entry.verdict = "TokenExpiredError"
  /\ resp.auth.next
  /\ resp.auth.user = NoIdentity

\* C24: the password is in no external representation: not in the user object
\* of a register or login response, not in the document /me returns, and not
\* in what authenticate or optionalUser attach to the request, whichever
\* declaration of the password path the schema has
C24_PasswordNeverShown ==
  \A sf \in BOOLEAN, ut \in UserTypes :
    /\ resp.op = "register" /\ resp.status = 201
         => "password" \notin registerBody(resp.userType)
    /\ resp.op = "login" /\ resp.status = 200 => "password" \notin loginBody(ut)
    /\ resp.op = "request" /\ resp.auth.next
         => "password" \notin reqUser(resp.route.mw, sf)
    /\ (/\ resp.op = "request"
        /\ resp.route = Route("routes", "none", "handler")
        /\ resp.handlerRan)
         => "password" \notin meBody(sf)
    /\ resp.op = "optional" /\ resp.auth.user # NoIdentity
         => "password" \notin reqUser("optional", sf)

C24_Witness ==
  /\ resp.op = "request"
  /\ resp.route.mw = "sec"
  /\ resp.auth.next
  /\ "password" \in find(FALSE)
  /\ "password" \notin reqUser("sec", FALSE)

\* C23: logging out with a token that is already revoked succeeds, and the
\* token is still revoked afterwards
C23_LogoutIdempotent ==
  (/\ resp.op = "request"
   /\ resp.route.handler = "logout"
   /\ resp.entry.revoked
   /\ ~resp.entry.blocked
   /\ resp.entry.verdict = "ok")
  => resp.status = 200 /\ resp.tok \in tokenBlacklist

\* C30: optionalUser attaches an identity only where authenticate would accept
\* the request: not for a revoked token, not for a deactivated account, not
\* for a source that is blocked
C30_OptionalWithinAuthenticate ==
  (resp.op = "optional" /\ resp.auth.user # NoIdentity)
  => /\ ~resp.entry.revoked
     /\ resp.entry.active
     /\ ~resp.entry.blocked

\* C25: the fifth of five failed password checks made one after the other on
\* an account, with no success in between, locks it for two hours from that
\* check; a call that finds lockUntil in the future fails with 'Account is
\* locked', for the right password too, and leaves loginAttempts and
\* lockUntil as they were
C25_FifthFailureLocks ==
  resp.op = "credentials" =>
    /\ (/\ resp.outcome = "invalid"
        /\ resp.id # NoId
        /\ resp.streak = LockThreshold)
         => /\ users[resp.id].lockUntil = resp.at + LockTime
            /\ isLocked(users[resp.id], resp.at)
    /\ (resp.before.lockUntil > resp.entered /\ resp.outcome # "error")
         => /\ resp.outcome = "locked"
            /\ lockPaths(users, resp.id) = resp.before

C25_Witness ==
  /\ resp.op = "credentials"
  /\ resp.outcome = "invalid"
  /\ resp.streak = LockThreshold
  /\ resp.before = [loginAttempts |-> LockThreshold - 1, lockUntil |-> 0]
  /\ resp.at > resp.entered

\* C26: the first call after the lock has run out does not carry the old
\* count on: a failure leaves loginAttempts 1 and no lockUntil, a success
\* leaves loginAttempts 0 and no lockUntil
C26_ExpiredLockStartsAfresh ==
  (/\ resp.op = "credentials"
   /\ resp.before.lockUntil # 0
   /\ ~isLocked(resp.before, resp.entered))
  => /\ resp.outcome = "invalid"
          => lockPaths(users, resp.id) = [loginAttempts |-> 1, lockUntil |-> 0]
     /\ resp.outcome = "ok"
          => lockPaths(users, resp.id) = [loginAttempts |-> 0, lockUntil |-> 0]

\* C28: whatever the order in which overlapping failed calls read and write,
\* a stored loginAttempts of five or more comes with a lockUntil
C28_CountOfFiveIsLocked ==
  \A u \in UserIds :
    users[u].loginAttempts >= LockThreshold => users[u].lockUntil # 0

\* C27: a run of the hourly sweep removes the records whose last failure is
\* more than an hour old and no other, leaves every other record as it was,
\* and changes no source's isIPBlocked verdict at the time it runs
C27_SweepFrame ==
  [][lastSweep' # lastSweep =>
       \A ip \in IPs :
         /\ ip \in DOMAIN loginAttempts' =>
              /\ ip \in DOMAIN loginAttempts
              /\ loginAttempts'[ip] = loginAttempts[ip]
         /\ ip \in DOMAIN loginAttempts =>
              (ip \notin DOMAIN loginAttempts'
                 <=> lastSweep' - loginAttempts[ip].lastAttempt > HOUR)
         /\ isIPBlocked(loginAttempts', ip, lastSweep').blocked
              = isIPBlocked(loginAttempts, ip, lastSweep').blocked]_vars

C27_Witness ==
  /\ lastSweep > 0
  /\ \E i, j \in IPs :
       /\ failLog[i].burst > 0
       /\ lastSweep - failLog[i].last > HOUR
       /\ i \notin DOMAIN loginAttempts
       /\ j \in DOMAIN loginAttempts
       /\ loginAttempts[j].lastAttempt < lastSweep

\* C29: login issues no token for an account whose isActive is false, whether
\* the password is right or wrong: the flag is the stored one at the time of
\* the response
C29_NoTokenForInactive ==
  (/\ resp.op = "login"
   /\ userFound(users, resp.doc.id)
   /\ ~users[resp.doc.id].isActive)
  => /\ resp.token = NoToken
     /\ resp.status # 200

\* C29, amended: login issues no token when the document User.findOne
\* returned has isActive false, whether the password is right or wrong
C29_NoTokenForFetchedInactive ==
  (/\ resp.op = "login"
   /\ resp.doc.found
   /\ ~resp.doc.isActive)
  => /\ resp.token = NoToken
     /\ resp.status \in {401, 403}

C29_Witness ==
  /\ resp.op = "login"
  /\ resp.doc.found
  /\ ~resp.doc.isActive
  /\ resp.pw = "right"
  /\ resp.status = 403

====
